---- MODULE Spec2Model ----
(***************************************************************************)
(* Pacing engine of the automation tool: the action rate limiter           *)
(* (RateLimiter) and the activity scheduler (Scheduler) of package         *)
(* stealth.  Time is an integer number of minutes since a local midnight   *)
(* that falls on a Monday.                                                 *)
(***************************************************************************)
EXTENDS Integers, Sequences, FiniteSets, TLC

\* ------------------------------------------------------------------ time
Minute == 1
Hour == 60
Day == 24 * Hour
HalfHour == Hour \div 2

\* ---------------------------------------------------------------- bounds
MaxRecords == 2
MaxLimit == 2

\* The instants at which the clock is observed: around the start and around
\* one day later, so that a record sits inside the 1-hour window, inside the
\* 24-hour window only, exactly on a window edge, or past it.
Instants ==
    {0, HalfHour, Hour, Day - HalfHour, Day, Day + HalfHour}

\* models.ActionType values used as rate-limit categories
Categories == {"connection"}

\* Limits{HourlyLimit, DailyLimit} values handed to the limiter
LimitsSet == [hourly : 0..MaxLimit, daily : 0..MaxLimit]

\* durations handed to SetCooldown (a negative one is already over)
CooldownDurations == {0 - HalfHour, HalfHour, Day}

\* a category without an entry in the cooldowns map
NoCooldown == [ok |-> FALSE, end |-> 0]
NoCall == [at |-> -1, dur |-> 0]

VARIABLES
    now,            \* time.Now()
    actionCounts,   \* RateLimiter.actionCounts: category -> sequence of times
    cooldowns,      \* RateLimiter.cooldowns: category -> cooldown end, if any
    ret,            \* the call made by the last step and what it returned
    cdSet,          \* per category, the latest SetCooldown call (time, duration)
    wpc,            \* WaitForNextAction: position of the caller
    wcat,           \* WaitForNextAction: actionType argument
    wlim,           \* WaitForNextAction: limits argument
    wreason,        \* WaitForNextAction: reason of the last denial
    waitTime,       \* WaitForNextAction: the computed waitTime
    wake,           \* WaitForNextAction: when the current time.Sleep is over
    mu,             \* RateLimiter.mu: the goroutine holding it, or Free
    lproc,          \* per goroutine: the limiter method it runs and where it is
    absCounts,      \* the action histories as if every method ran in one step
    absCooldowns,   \* the cooldowns as if every method ran in one step
    torn,           \* some read has seen a value that is not the one above
    cfg,            \* Scheduler.config: BusinessHoursOnly, StartHour, EndHour
    sret,           \* the scheduler call made by the last step and its result
    spc,            \* WaitForSchedule: position of the caller
    waitUntil,      \* WaitForSchedule: the jittered resume time
    starget,        \* WaitForSchedule: the resume time before the jitter
    slept,          \* WaitForSchedule: whether this call has slept
    sessionStartAt, \* Scheduler.sessionStartAt
    lastActivityAt, \* Scheduler.lastActivityAt (ZeroTime: the zero time.Time)
    actionsThisHour,\* Scheduler.actionsThisHour
    gor,            \* per goroutine: the Scheduler method it runs and where
    mouse,          \* MouseController: config, lastX/lastY, the last MoveTo
    typing,         \* TypingController: config, the keys sent by the last call
    scroll,         \* ScrollController: config, the page offset, the last call
    timing,         \* TimingController: the last RandomDelay call
    pure            \* the last call of a function without side effects

rlVars == <<now, actionCounts, cooldowns, ret, cdSet>>
wVars == <<wpc, wcat, wlim, wreason, waitTime, wake>>
lockVars == <<mu, lproc, absCounts, absCooldowns, torn>>
schedVars == <<cfg, sret, spc, waitUntil, starget, slept>>
sessionVars == <<sessionStartAt, lastActivityAt, actionsThisHour, gor>>
stealthVars == <<mouse, typing, scroll, timing, pure>>
nonLimiterVars == <<lockVars, schedVars, sessionVars, stealthVars>>
limiterVars == <<actionCounts, cooldowns, ret, cdSet>>
vars == <<now, actionCounts, cooldowns, ret, cdSet,
          wpc, wcat, wlim, wreason, waitTime, wake,
          mu, lproc, absCounts, absCooldowns, torn,
          cfg, sret, spc, waitUntil, starget, slept,
          sessionStartAt, lastActivityAt, actionsThisHour, gor,
          mouse, typing, scroll, timing, pure>>

NoLimits == [hourly |-> 0, daily |-> 0]

\* goroutines calling into the limiter, and the unlocked mutex
Procs == {"workflow", "status"}
Free == "free"
IdleProc ==
    [op |-> "idle", step |-> 0, cat |-> "none", lim |-> NoLimits, dur |-> 0,
     tmp |-> <<>>, allowed |-> FALSE, reason |-> "", wake |-> 0]
NoRet ==
    [op |-> "none", by |-> "none", cat |-> "none", lim |-> NoLimits,
     allowed |-> FALSE, reason |-> "", pruned |-> 0, daily |-> 0, hourly |-> 0,
     found |-> FALSE, last |-> 0]

\* ---------------------------------------------------------- rate limiter

\* t.After(cutoff) for every t kept
cleanOldEntriesLate(counts, t) ==
    SelectSeq(counts, LAMBDA x : x > t - Day - Hour)

cleanOldEntries(counts, t) ==
    SelectSeq(counts, LAMBDA x : x > t - Day)

countInWindowInclusive(times, window, t) ==
    Cardinality({i \in 1..Len(times) : times[i] >= t - window})

countInWindow(times, window, t) ==
    Cardinality({i \in 1..Len(times) : times[i] > t - window})

\* time.Now().Before(cooldownEnd), when the category has a cooldown entry
InCooldownInclusive(cd, t) == cd.ok /\ t <= cd.end

InCooldown(cd, t) == cd.ok /\ t < cd.end

\* the checks of CanPerform after the cooldown check, on the cleaned list
LimitReasonDailyFirst(counts, lim, t) ==
    IF countInWindow(counts, Day, t) >= lim.daily THEN "daily limit reached"
    ELSE IF countInWindow(counts, Hour, t) >= lim.hourly
         THEN "hourly limit reached"
         ELSE ""

LimitReason(counts, lim, t) ==
    IF countInWindow(counts, Hour, t) >= lim.hourly THEN "hourly limit reached"
    ELSE IF countInWindow(counts, Day, t) >= lim.daily
         THEN "daily limit reached"
         ELSE ""

\* CanPerform(actionType, limits) called by `who`: its effect and its result
CanPerformCall(who, c, lim) ==
    IF InCooldown(cooldowns[c], now)
    THEN /\ ret' = [NoRet EXCEPT !.op = "CanPerform", !.by = who, !.cat = c,
                                 !.lim = lim, !.allowed = FALSE,
                                 !.reason = "in cooldown"]
         /\ UNCHANGED actionCounts
    ELSE LET cleaned == cleanOldEntries(actionCounts[c], now)
             reason == LimitReason(cleaned, lim, now)
         IN /\ actionCounts' = [actionCounts EXCEPT ![c] = cleaned]
            /\ ret' = [NoRet EXCEPT !.op = "CanPerform", !.by = who, !.cat = c,
                                    !.lim = lim, !.allowed = (reason = ""),
                                    !.reason = reason,
                                    !.pruned = Len(actionCounts[c]) - Len(cleaned)]

CanPerform(c, lim) ==
    /\ CanPerformCall("caller", c, lim)
    /\ UNCHANGED <<now, cooldowns, cdSet>>
    /\ UNCHANGED <<wVars, nonLimiterVars>>

RecordAction(c) ==
    /\ Len(actionCounts[c]) < MaxRecords
    /\ actionCounts' = [actionCounts EXCEPT ![c] = Append(@, now)]
    /\ ret' = [NoRet EXCEPT !.op = "RecordAction", !.by = "caller", !.cat = c]
    /\ UNCHANGED <<now, cooldowns, cdSet>>
    /\ UNCHANGED <<wVars, nonLimiterVars>>

CooldownEndDurationOnly(t, d) == d

CooldownEnd(t, d) == t + d

SetCooldown(c, d) ==
    /\ cooldowns' = [cooldowns EXCEPT ![c] = [ok |-> TRUE, end |-> CooldownEnd(now, d)]]
    /\ cdSet' = [cdSet EXCEPT ![c] = [at |-> now, dur |-> d]]
    /\ ret' = [NoRet EXCEPT !.op = "SetCooldown", !.by = "caller", !.cat = c]
    /\ UNCHANGED <<now, actionCounts>>
    /\ UNCHANGED <<wVars, nonLimiterVars>>

GetRemainingQuota(c, lim) ==
    LET cleaned == cleanOldEntries(actionCounts[c], now)
    IN /\ actionCounts' = [actionCounts EXCEPT ![c] = cleaned]
       /\ ret' = [NoRet EXCEPT !.op = "GetRemainingQuota", !.by = "caller",
                               !.cat = c, !.lim = lim,
                               !.daily = lim.daily - countInWindow(cleaned, Day, now),
                               !.hourly = lim.hourly - countInWindow(cleaned, Hour, now),
                               !.pruned = Len(actionCounts[c]) - Len(cleaned)]
       /\ UNCHANGED <<now, cooldowns, cdSet>>
       /\ UNCHANGED <<wVars, nonLimiterVars>>

\* returns nil (found = FALSE) or the last entry; it does not prune
GetLastActionTime(c) ==
    LET counts == actionCounts[c]
    IN /\ ret' = IF Len(counts) = 0
                 THEN [NoRet EXCEPT !.op = "GetLastActionTime",
                                    !.by = "caller", !.cat = c]
                 ELSE [NoRet EXCEPT !.op = "GetLastActionTime",
                                    !.by = "caller", !.cat = c,
                                    !.found = TRUE,
                                    !.last = counts[Len(counts)]]
       /\ UNCHANGED <<now, actionCounts, cooldowns, cdSet>>
       /\ UNCHANGED <<wVars, nonLimiterVars>>

ResetLimits ==
    /\ actionCounts' = [c \in Categories |-> <<>>]
    /\ cooldowns' = [c \in Categories |-> NoCooldown]
    /\ cdSet' = [c \in Categories |-> NoCall]
    /\ ret' = [NoRet EXCEPT !.op = "ResetLimits", !.by = "caller"]
    /\ UNCHANGED now
    /\ UNCHANGED <<wVars, nonLimiterVars>>

\* the wall clock moves on to a later instant
Tick ==
    /\ \E t \in Instants : t > now /\ now' = t
    /\ ret' = NoRet
    /\ UNCHANGED <<actionCounts, cooldowns, cdSet>>
    /\ UNCHANGED <<wVars, nonLimiterVars>>

InitLimiter ==
    /\ actionCounts = [c \in Categories |-> <<>>]
    /\ cooldowns = [c \in Categories |-> NoCooldown]
    /\ ret = NoRet
    /\ cdSet = [c \in Categories |-> NoCall]

InitWaiter ==
    /\ wpc = "idle"
    /\ wcat = "none"
    /\ wlim = NoLimits
    /\ wreason = ""
    /\ waitTime = 0
    /\ wake = 0

InitLock ==
    /\ mu = Free
    /\ lproc = [p \in Procs |-> IdleProc]
    /\ absCounts = [c \in Categories |-> <<>>]
    /\ absCooldowns = [c \in Categories |-> NoCooldown]
    /\ torn = FALSE

\* the Stealth section of the default configuration
DefaultStealth == [businessHoursOnly |-> TRUE, startHour |-> 9, endHour |-> 18]

NoSRet == [op |-> "none", by |-> "none", result |-> FALSE, prev |-> "none"]

\* the zero time.Time, and the goroutines that call into the Scheduler
ZeroTime == 0 - 1
Goroutines == {"workflow", "status"}
IdleGor ==
    [op |-> "idle", step |-> 0, busy |-> FALSE, raced |-> FALSE, val |-> 0,
     wake |-> 0, last |-> "none", dur |-> 0, yes |-> FALSE]

\* coordinates are float64 pixels, kept here in fixed point: Scale units
\* to the pixel
Scale == 10
Pt(x, y) == [x |-> x * Scale, y |-> y * Scale]

\* NewMouseController: lastX = lastY = 0
IdleMouse ==
    [enableOvershoot |-> TRUE, last |-> Pt(0, 0), start |-> Pt(0, 0),
     target |-> Pt(0, 0), path |-> <<>>, sent |-> <<>>, result |-> "none",
     overshot |-> FALSE]

\* NewTypingController, with DefaultConfig's EnableTypos and TypoProbability
IdleTyping ==
    [enableTypos |-> TRUE, typoPercent |-> 3, op |-> "none", pc |-> "idle",
     text |-> <<>>, words |-> <<>>, w |-> 0, i |-> 0,
     sent |-> <<>>, field |-> <<>>, result |-> "none", failures |-> 0,
     faulty |-> 0, lost |-> 0, typos |-> 0]

\* NewScrollController, with DefaultConfig's EnableScrollBack; the page
\* starts at offset 0
IdleScroll ==
    [enableScrollBack |-> TRUE, y |-> 0, from |-> 0, target |-> 0,
     sent |-> <<>>, result |-> "none", corrected |-> FALSE,
     readFailed |-> FALSE]

\* NewTimingController; no RandomDelay yet
IdleTiming ==
    [min |-> 0, max |-> 0, lo |-> 0, hi |-> 0, sample |-> 0, slept |-> 0,
     called |-> FALSE]

\* no function has been called
NoPure == [op |-> "none"]

InitStealth ==
    /\ pure = NoPure
    /\ mouse = IdleMouse
    /\ typing = IdleTyping
    /\ scroll = IdleScroll
    /\ timing = IdleTiming

\* NewScheduler: sessionStartAt is time.Now(), the rest zero values
InitSession ==
    /\ sessionStartAt = now
    /\ lastActivityAt = ZeroTime
    /\ actionsThisHour = 0
    /\ gor = [g \in Goroutines |-> IdleGor]

\* NewScheduler(cfg, logger), nothing called yet
InitScheduler(configs) ==
    /\ cfg \in configs
    /\ sret = NoSRet
    /\ spc = "idle"
    /\ waitUntil = 0
    /\ starget = 0
    /\ slept = FALSE

Init ==
    /\ now = 0
    /\ InitLimiter /\ InitWaiter /\ InitLock
    /\ InitScheduler({DefaultStealth})
    /\ InitSession
    /\ InitStealth

Next ==
    \/ \E c \in Categories, lim \in LimitsSet : CanPerform(c, lim)
    \/ \E c \in Categories : RecordAction(c)
    \/ \E c \in Categories, d \in CooldownDurations : SetCooldown(c, d)
    \/ \E c \in Categories, lim \in LimitsSet : GetRemainingQuota(c, lim)
    \/ \E c \in Categories : GetLastActionTime(c)
    \/ ResetLimits
    \/ Tick

Spec == Init /\ [][Next]_vars

\* ---------------------------------------------------- WaitForNextAction

PollInterval == 5 * Minute

\* the clock of a waiting run is followed up to here
Horizon == 4 * Day

\* time.Date(now.Year(), now.Month(), now.Day()+1, 0, 0, 0, 0, now.Location())
NextMidnight(t) == ((t \div Day) + 1) * Day

\* `if canPerform { return }`
WaitReturnsAlways(r) == TRUE

WaitReturns(r) == r.allowed

\* the switch with the hourly case polling every minute
WaitDurationPollMinute(reason, cd, t) ==
    LET raw == CASE reason = "in cooldown" -> (IF cd.ok THEN cd.end - t ELSE 0)
                 [] reason = "hourly limit reached" -> Minute
                 [] reason = "daily limit reached" -> NextMidnight(t) - t
                 [] OTHER -> 0
    IN IF raw <= 0 THEN Minute ELSE raw

\* the switch on the denial reason, then `if waitTime <= 0`
WaitDuration(reason, cd, t) ==
    LET raw == CASE reason = "in cooldown" -> (IF cd.ok THEN cd.end - t ELSE 0)
                 [] reason = "hourly limit reached" -> PollInterval
                 [] reason = "daily limit reached" -> NextMidnight(t) - t
                 [] OTHER -> 0
    IN IF raw <= 0 THEN Minute ELSE raw

\* limits handed to WaitForNextAction (with hourlyLimit = 0 it polls every
\* five minutes for ever; dailyLimit = 0 shows a wait that never ends)
WaitLimits == {lim \in LimitsSet : lim.hourly > 0}

\* a caller enters WaitForNextAction(actionType, limits)
WStart(c, lim) ==
    /\ wpc = "idle"
    /\ wpc' = "check"
    /\ wcat' = c
    /\ wlim' = lim
    /\ ret' = NoRet
    /\ UNCHANGED <<now, actionCounts, cooldowns, cdSet, wreason, waitTime, wake>>
    /\ UNCHANGED nonLimiterVars

\* top of the loop: r.CanPerform(actionType, limits), return when allowed
WCheck ==
    /\ wpc = "check"
    /\ CanPerformCall("waiter", wcat, wlim)
    /\ wpc' = IF WaitReturns(ret') THEN "done" ELSE "wait"
    /\ wreason' = ret'.reason
    /\ UNCHANGED <<now, cooldowns, cdSet, wcat, wlim, waitTime, wake>>
    /\ UNCHANGED nonLimiterVars

\* the wait is computed (the cooldown is read under the mutex), Sleep begins
WComputeWait ==
    /\ wpc = "wait"
    /\ waitTime' = WaitDuration(wreason, cooldowns[wcat], now)
    /\ wake' = now + waitTime'
    /\ wpc' = "sleep"
    /\ ret' = NoRet
    /\ UNCHANGED <<now, actionCounts, cooldowns, cdSet, wcat, wlim, wreason>>
    /\ UNCHANGED nonLimiterVars

\* time.Sleep(waitTime) returns once the clock has reached the wake time
WSleepOver ==
    /\ wpc = "sleep"
    /\ now >= wake
    /\ wpc' = "check"
    /\ ret' = NoRet
    /\ UNCHANGED <<now, actionCounts, cooldowns, cdSet, wcat, wlim, wreason,
                   waitTime, wake>>
    /\ UNCHANGED nonLimiterVars

\* the clock reaches the time the sleeping caller waits for
SleepElapses ==
    /\ wpc = "sleep"
    /\ now < wake
    /\ wake <= Horizon
    /\ now' = wake
    /\ ret' = NoRet
    /\ UNCHANGED <<actionCounts, cooldowns, cdSet>>
    /\ UNCHANGED <<wVars, nonLimiterVars>>

WaiterStep == WCheck \/ WComputeWait \/ WSleepOver

\* Before the wait begins any caller records actions, sets cooldowns and lets
\* time pass; during the wait another caller may only reset the limiter.
NextWait ==
    \/ wpc = "idle" /\ \E c \in Categories : RecordAction(c)
    \/ wpc = "idle" /\ \E c \in Categories, d \in CooldownDurations : SetCooldown(c, d)
    \/ wpc = "idle" /\ Tick
    \/ \E c \in Categories, lim \in WaitLimits : WStart(c, lim)
    \/ wpc # "idle" /\ ResetLimits
    \/ WaiterStep
    \/ SleepElapses

\* the caller's goroutine keeps running and the clock keeps advancing
WaitSpec ==
    Init /\ [][NextWait]_vars /\ WF_vars(WaiterStep) /\ WF_vars(SleepElapses)

\* ------------------------------------------- the limiter under its mutex
\* Every public method as the sequence of its lock operations and of its
\* reads and writes of r.actionCounts and r.cooldowns, one step each.

CanPerformBody ==
    <<"lock", "checkCooldown", "cleanRead", "cleanWrite", "count", "unlock">>
RecordActionBody == <<"lock", "appendRead", "appendWrite", "unlock">>
SetCooldownBody == <<"lock", "setCooldown", "unlock">>
GetRemainingQuotaBody == <<"lock", "cleanRead", "cleanWrite", "count", "unlock">>
GetLastActionTimeBody == <<"lock", "readLast", "unlock">>
ResetLimitsBody == <<"lock", "resetCounts", "resetCooldowns", "unlock">>

\* WaitForNextAction reading the cooldown without r.mu.Lock()
WaitForNextActionBodyNoLock ==
    CanPerformBody \o <<"decide", "readCooldown", "sleep">>

WaitForNextActionBody ==
    CanPerformBody \o <<"decide", "lock", "readCooldown", "unlock", "sleep">>

\* a caller that asks CanPerform and records directly after an allowed
\* answer, each under its own lock
CheckThenRecordBody == CanPerformBody \o <<"gate">> \o RecordActionBody

Body(op) ==
    CASE op = "CanPerform" -> CanPerformBody
      [] op = "CheckThenRecord" -> CheckThenRecordBody
      [] op = "RecordAction" -> RecordActionBody
      [] op = "SetCooldown" -> SetCooldownBody
      [] op = "GetRemainingQuota" -> GetRemainingQuotaBody
      [] op = "GetLastActionTime" -> GetLastActionTimeBody
      [] op = "ResetLimits" -> ResetLimitsBody
      [] op = "WaitForNextAction" -> WaitForNextActionBody
      [] OTHER -> <<>>

LockedOps ==
    {"CanPerform", "RecordAction", "SetCooldown", "GetRemainingQuota",
     "GetLastActionTime", "ResetLimits", "WaitForNextAction"}

\* the steps that read or write r.actionCounts or r.cooldowns
AccessKinds ==
    {"checkCooldown", "cleanRead", "cleanWrite", "count", "appendRead",
     "appendWrite", "setCooldown", "readLast", "resetCounts", "resetCooldowns",
     "readCooldown"}

\* limits and durations used by the goroutines of this view
LockLimits == {lim \in LimitsSet : lim.hourly = 1 /\ lim.daily = MaxLimit}
LockDurations == {HalfHour}

Kind(p) ==
    IF lproc[p].op = "idle" \/ lproc[p].step > Len(Body(lproc[p].op))
    THEN "none"
    ELSE Body(lproc[p].op)[lproc[p].step]

\* first position of a step kind in the method's body, from position `from`
IndexOf(op, kind, from) ==
    CHOOSE i \in from..Len(Body(op)) :
        /\ Body(op)[i] = kind
        /\ \A j \in from..(i - 1) : Body(op)[j] # kind

Advance(p) == [lproc EXCEPT ![p].step = @ + 1]

lockFrame == <<ret, cdSet, schedVars, sessionVars, stealthVars>>

\* a goroutine calls a method of the limiter
LBegin(p, op, c, lim, d) ==
    /\ lproc[p].op = "idle"
    /\ lproc' = [lproc EXCEPT ![p] = [IdleProc EXCEPT !.op = op, !.step = 1,
                                                      !.cat = c, !.lim = lim,
                                                      !.dur = d]]
    /\ UNCHANGED <<now, actionCounts, cooldowns, mu, absCounts, absCooldowns, torn>>
    /\ UNCHANGED <<lockFrame, wVars>>

\* r.mu.Lock()
LAcquire(p) ==
    /\ Kind(p) = "lock"
    /\ mu = Free
    /\ mu' = p
    /\ lproc' = Advance(p)
    /\ UNCHANGED <<now, actionCounts, cooldowns, absCounts, absCooldowns, torn>>
    /\ UNCHANGED <<lockFrame, wVars>>

\* r.mu.Unlock(), deferred or explicit; a plain method then returns
LRelease(p) ==
    /\ Kind(p) = "unlock"
    /\ mu = p
    /\ mu' = Free
    /\ lproc' = IF lproc[p].step < Len(Body(lproc[p].op))
                THEN Advance(p)
                ELSE [lproc EXCEPT ![p] = IdleProc]
    /\ UNCHANGED <<now, actionCounts, cooldowns, absCounts, absCooldowns, torn>>
    /\ UNCHANGED <<lockFrame, wVars>>

\* CanPerform: `if cooldownEnd, ok := r.cooldowns[actionType]; ok`
LCheckCooldown(p) ==
    /\ Kind(p) = "checkCooldown"
    /\ torn' = (torn \/ cooldowns[lproc[p].cat] # absCooldowns[lproc[p].cat])
    /\ lproc' = IF InCooldown(cooldowns[lproc[p].cat], now)
                THEN [lproc EXCEPT ![p].allowed = FALSE,
                                   ![p].reason = "in cooldown",
                                   ![p].step = IndexOf(lproc[p].op, "unlock", @)]
                ELSE Advance(p)
    /\ UNCHANGED <<now, actionCounts, cooldowns, mu, absCounts, absCooldowns>>
    /\ UNCHANGED <<lockFrame, wVars>>

\* cleanOldEntries: `counts := r.actionCounts[actionType]`
LCleanRead(p) ==
    /\ Kind(p) = "cleanRead"
    /\ torn' = (torn \/ actionCounts[lproc[p].cat] # absCounts[lproc[p].cat])
    /\ lproc' = [lproc EXCEPT ![p].tmp = actionCounts[lproc[p].cat],
                              ![p].step = @ + 1]
    /\ UNCHANGED <<now, actionCounts, cooldowns, mu, absCounts, absCooldowns>>
    /\ UNCHANGED <<lockFrame, wVars>>

\* cleanOldEntries: `r.actionCounts[actionType] = filtered`
LCleanWrite(p) ==
    /\ Kind(p) = "cleanWrite"
    /\ actionCounts' = [actionCounts EXCEPT
                          ![lproc[p].cat] = cleanOldEntries(lproc[p].tmp, now)]
    /\ absCounts' = [absCounts EXCEPT
                          ![lproc[p].cat] = cleanOldEntries(@, now)]
    /\ lproc' = [lproc EXCEPT ![p].tmp = <<>>, ![p].step = @ + 1]
    /\ UNCHANGED <<now, cooldowns, mu, absCooldowns, torn>>
    /\ UNCHANGED <<lockFrame, wVars>>

\* `counts := r.actionCounts[actionType]` and the two countInWindow calls
LCount(p) ==
    /\ Kind(p) = "count"
    /\ torn' = (torn \/ actionCounts[lproc[p].cat] # absCounts[lproc[p].cat])
    /\ LET reason == LimitReason(actionCounts[lproc[p].cat], lproc[p].lim, now)
       IN lproc' = [lproc EXCEPT ![p].allowed = (reason = ""),
                                 ![p].reason = reason,
                                 ![p].step = @ + 1]
    /\ UNCHANGED <<now, actionCounts, cooldowns, mu, absCounts, absCooldowns>>
    /\ UNCHANGED <<lockFrame, wVars>>

\* RecordAction: the read of r.actionCounts[actionType] handed to append
LAppendRead(p) ==
    /\ Kind(p) = "appendRead"
    /\ Len(actionCounts[lproc[p].cat]) < MaxRecords
    /\ torn' = (torn \/ actionCounts[lproc[p].cat] # absCounts[lproc[p].cat])
    /\ lproc' = [lproc EXCEPT ![p].tmp = actionCounts[lproc[p].cat],
                              ![p].step = @ + 1]
    /\ UNCHANGED <<now, actionCounts, cooldowns, mu, absCounts, absCooldowns>>
    /\ UNCHANGED <<lockFrame, wVars>>

LPrependWrite(p) ==
    /\ Kind(p) = "appendWrite"
    /\ actionCounts' = [actionCounts EXCEPT
                          ![lproc[p].cat] = <<now>> \o lproc[p].tmp]
    /\ absCounts' = [absCounts EXCEPT ![lproc[p].cat] = <<now>> \o @]
    /\ lproc' = [lproc EXCEPT ![p].tmp = <<>>, ![p].step = @ + 1]
    /\ UNCHANGED <<now, cooldowns, mu, absCooldowns, torn>>
    /\ UNCHANGED <<lockFrame, wVars>>

\* RecordAction: `r.actionCounts[actionType] = append(..., time.Now())`
LAppendWrite(p) ==
    /\ Kind(p) = "appendWrite"
    /\ actionCounts' = [actionCounts EXCEPT
                          ![lproc[p].cat] = Append(lproc[p].tmp, now)]
    /\ absCounts' = [absCounts EXCEPT ![lproc[p].cat] = Append(@, now)]
    /\ lproc' = [lproc EXCEPT ![p].tmp = <<>>, ![p].step = @ + 1]
    /\ UNCHANGED <<now, cooldowns, mu, absCooldowns, torn>>
    /\ UNCHANGED <<lockFrame, wVars>>

\* SetCooldown: `r.cooldowns[actionType] = time.Now().Add(duration)`
LSetCooldown(p) ==
    /\ Kind(p) = "setCooldown"
    /\ cooldowns' = [cooldowns EXCEPT ![lproc[p].cat] =
                        [ok |-> TRUE, end |-> CooldownEnd(now, lproc[p].dur)]]
    /\ absCooldowns' = [absCooldowns EXCEPT ![lproc[p].cat] =
                        [ok |-> TRUE, end |-> CooldownEnd(now, lproc[p].dur)]]
    /\ lproc' = Advance(p)
    /\ UNCHANGED <<now, actionCounts, mu, absCounts, torn>>
    /\ UNCHANGED <<lockFrame, wVars>>

\* GetLastActionTime: `counts := r.actionCounts[actionType]`
LReadLast(p) ==
    /\ Kind(p) = "readLast"
    /\ torn' = (torn \/ actionCounts[lproc[p].cat] # absCounts[lproc[p].cat])
    /\ lproc' = Advance(p)
    /\ UNCHANGED <<now, actionCounts, cooldowns, mu, absCounts, absCooldowns>>
    /\ UNCHANGED <<lockFrame, wVars>>

\* ResetLimits: `r.actionCounts = make(...)`; the reset takes effect here
LResetCounts(p) ==
    /\ Kind(p) = "resetCounts"
    /\ actionCounts' = [c \in Categories |-> <<>>]
    /\ absCounts' = [c \in Categories |-> <<>>]
    /\ absCooldowns' = [c \in Categories |-> NoCooldown]
    /\ lproc' = Advance(p)
    /\ UNCHANGED <<now, cooldowns, mu, torn>>
    /\ UNCHANGED <<lockFrame, wVars>>

\* ResetLimits: `r.cooldowns = make(...)`
LResetCooldowns(p) ==
    /\ Kind(p) = "resetCooldowns"
    /\ cooldowns' = [c \in Categories |-> NoCooldown]
    /\ lproc' = Advance(p)
    /\ UNCHANGED <<now, actionCounts, mu, absCounts, absCooldowns, torn>>
    /\ UNCHANGED <<lockFrame, wVars>>

\* WaitForNextAction after its CanPerform call: return, or pick the wait
LDecide(p) ==
    /\ Kind(p) = "decide"
    /\ lproc' =
         IF WaitReturns(lproc[p]) THEN [lproc EXCEPT ![p] = IdleProc]
         ELSE IF lproc[p].reason = "in cooldown" THEN Advance(p)
         ELSE [lproc EXCEPT
                 ![p].wake = now + WaitDuration(lproc[p].reason, NoCooldown, now),
                 ![p].step = IndexOf(lproc[p].op, "sleep", @)]
    /\ UNCHANGED <<now, actionCounts, cooldowns, mu, absCounts, absCooldowns, torn>>
    /\ UNCHANGED <<lockFrame, wVars>>

\* WaitForNextAction: `if cooldownEnd, ok := r.cooldowns[actionType]; ok`
LReadCooldown(p) ==
    /\ Kind(p) = "readCooldown"
    /\ torn' = (torn \/ cooldowns[lproc[p].cat] # absCooldowns[lproc[p].cat])
    /\ lproc' = [lproc EXCEPT
                   ![p].wake = now + WaitDuration("in cooldown",
                                                  cooldowns[lproc[p].cat], now),
                   ![p].step = @ + 1]
    /\ UNCHANGED <<now, actionCounts, cooldowns, mu, absCounts, absCooldowns>>
    /\ UNCHANGED <<lockFrame, wVars>>

\* WaitForNextAction: time.Sleep(waitTime) is over, back to the loop's top
LSleepOver(p) ==
    /\ Kind(p) = "sleep"
    /\ now >= lproc[p].wake
    /\ lproc' = [lproc EXCEPT ![p].step = 1, ![p].wake = 0, ![p].reason = "",
                              ![p].allowed = FALSE]
    /\ UNCHANGED <<now, actionCounts, cooldowns, mu, absCounts, absCooldowns, torn>>
    /\ UNCHANGED <<lockFrame, wVars>>

\* the caller looks at what CanPerform returned: it records, or gives up
LGate(p) ==
    /\ Kind(p) = "gate"
    /\ lproc' = IF lproc[p].allowed THEN Advance(p)
                ELSE [lproc EXCEPT ![p] = IdleProc]
    /\ UNCHANGED <<now, actionCounts, cooldowns, mu, absCounts, absCooldowns, torn>>
    /\ UNCHANGED <<lockFrame, wVars>>

\* the wall clock moves on (here to the end of a cooldown and of a day)
LTick ==
    /\ \E t \in {HalfHour, Day} : t > now /\ now' = t
    /\ UNCHANGED <<actionCounts, cooldowns, mu, lproc, absCounts, absCooldowns, torn>>
    /\ UNCHANGED <<lockFrame, wVars>>

NextLock ==
    \/ \E p \in Procs, op \in LockedOps, c \in Categories,
          lim \in LockLimits, d \in LockDurations : LBegin(p, op, c, lim, d)
    \/ \E p \in Procs : LAcquire(p)
    \/ \E p \in Procs : LRelease(p)
    \/ \E p \in Procs : LCheckCooldown(p)
    \/ \E p \in Procs : LCleanRead(p)
    \/ \E p \in Procs : LCleanWrite(p)
    \/ \E p \in Procs : LCount(p)
    \/ \E p \in Procs : LAppendRead(p)
    \/ \E p \in Procs : LAppendWrite(p)
    \/ \E p \in Procs : LSetCooldown(p)
    \/ \E p \in Procs : LReadLast(p)
    \/ \E p \in Procs : LResetCounts(p)
    \/ \E p \in Procs : LResetCooldowns(p)
    \/ \E p \in Procs : LDecide(p)
    \/ \E p \in Procs : LReadCooldown(p)
    \/ \E p \in Procs : LSleepOver(p)
    \/ LTick

LockSpec == Init /\ [][NextLock]_vars

\* two goroutines that only ever check and then record
NextGate ==
    \/ \E p \in Procs, c \in Categories, lim \in LockLimits :
          LBegin(p, "CheckThenRecord", c, lim, 0)
    \/ \E p \in Procs : LAcquire(p)
    \/ \E p \in Procs : LRelease(p)
    \/ \E p \in Procs : LCheckCooldown(p)
    \/ \E p \in Procs : LCleanRead(p)
    \/ \E p \in Procs : LCleanWrite(p)
    \/ \E p \in Procs : LCount(p)
    \/ \E p \in Procs : LGate(p)
    \/ \E p \in Procs : LAppendRead(p)
    \/ \E p \in Procs : LAppendWrite(p)
    \/ LTick

GateSpec == Init /\ [][NextGate]_vars

\* ------------------------------------------------------------- scheduler

\* bound: the days the schedule is followed for, from a Friday 00:00 on
SchedDays == 4

SchedEpoch == 4 * Day
SchedHorizon == SchedEpoch + SchedDays * Day

\* time.Weekday values
Sunday == 0
Saturday == 6

\* `rand.Float64() < 0.2`, in percent
WeekendPercent == 20

\* `rand.Intn(60)-30`
JitterSpan == 30

\* StartHour/EndHour pairs: the default one and the widest Validate accepts
SchedHours == {<<DefaultStealth.startHour, DefaultStealth.endHour>>, <<0, 23>>}
SchedConfigs ==
    {[businessHoursOnly |-> b, startHour |-> h[1], endHour |-> h[2]] :
        b \in BOOLEAN, h \in SchedHours}

\* values of rand.Float64(), in percent, on both sides of the threshold
Draws == {0, WeekendPercent - 1, WeekendPercent, 99}

\* values of rand.Intn(60)-30: both ends and the middle
Jitters == {0 - JitterSpan, 0, JitterSpan - 1}

\* now.Hour(), now.Weekday() and the midnight that starts now's day
HourOf(t) == (t \div Hour) % 24
WeekdayOf(t) == ((t \div Day) + 1) % 7
DayStart(t) == (t \div Day) * Day
IsWeekend(t) == WeekdayOf(t) = Saturday \/ WeekdayOf(t) = Sunday

\* IsWithinSchedule with the gating flag ignored
WithinScheduleGatedAlways(c, t, draw) ==
    IF HourOf(t) < c.startHour \/ HourOf(t) >= c.endHour THEN FALSE
    ELSE IF IsWeekend(t) THEN draw < WeekendPercent
    ELSE TRUE

\* IsWithinSchedule with the end hour itself still inside the window
WithinScheduleEndInclusive(c, t, draw) ==
    IF ~c.businessHoursOnly THEN TRUE
    ELSE IF HourOf(t) < c.startHour \/ HourOf(t) > c.endHour THEN FALSE
    ELSE IF IsWeekend(t) THEN draw < WeekendPercent
    ELSE TRUE

\* the value IsWithinSchedule returns at time t when rand.Float64() is draw
WithinSchedule(c, t, draw) ==
    IF ~c.businessHoursOnly THEN TRUE
    ELSE IF HourOf(t) < c.startHour \/ HourOf(t) >= c.endHour THEN FALSE
    ELSE IF IsWeekend(t) THEN draw < WeekendPercent
    ELSE TRUE

\* WaitForSchedule: waitUntil before the jitter is added
ResumeTarget(c, t) ==
    IF HourOf(t) >= c.endHour
    THEN DayStart(t) + Day + c.startHour * Hour
    ELSE DayStart(t) + c.startHour * Hour

BoolName(b) == IF b THEN "true" ELSE "false"

schedFrame == <<limiterVars, wVars, lockVars, sessionVars, stealthVars>>

\* a caller asks IsWithinSchedule()
IsWithinSchedule(draw) ==
    /\ spc \in {"idle", "done"}
    /\ sret' = [op |-> "IsWithinSchedule", by |-> "caller",
                result |-> WithinSchedule(cfg, now, draw),
                prev |-> IF sret.op = "IsWithinSchedule"
                         THEN BoolName(sret.result) ELSE "none"]
    /\ UNCHANGED <<now, cfg, spc, waitUntil, starget, slept>>
    /\ UNCHANGED schedFrame

\* WaitForSchedule is entered: `if !s.config.BusinessHoursOnly { return }`
SWStart ==
    /\ spc = "idle"
    /\ spc' = IF ~cfg.businessHoursOnly THEN "done" ELSE "loop"
    /\ slept' = FALSE
    /\ sret' = NoSRet
    /\ UNCHANGED <<now, cfg, waitUntil, starget>>
    /\ UNCHANGED schedFrame

\* `for !s.IsWithinSchedule()`: leave the loop, or compute waitUntil
SWLoop(draw, jitter) ==
    /\ spc = "loop"
    /\ LET r == WithinSchedule(cfg, now, draw)
       IN /\ sret' = [op |-> "IsWithinSchedule", by |-> "wait", result |-> r,
                      prev |-> "none"]
          /\ IF r
             THEN /\ spc' = "done"
                  /\ UNCHANGED <<waitUntil, starget>>
             ELSE /\ spc' = "inner"
                  /\ starget' = ResumeTarget(cfg, now)
                  /\ waitUntil' = ResumeTarget(cfg, now) + jitter * Minute
    /\ UNCHANGED <<now, cfg, slept>>
    /\ UNCHANGED schedFrame

\* `for time.Now().Before(waitUntil)`: sleep a minute, or what remains
SWSleep ==
    /\ spc = "inner"
    /\ now < waitUntil
    /\ LET remaining == waitUntil - now
           sleepTime == IF remaining < Minute THEN remaining ELSE Minute
       IN /\ now + sleepTime <= SchedHorizon
          /\ now' = now + sleepTime
    /\ slept' = TRUE
    /\ sret' = NoSRet
    /\ UNCHANGED <<cfg, spc, waitUntil, starget>>
    /\ UNCHANGED schedFrame

\* the inner loop ends and the outer condition is evaluated again
SWInnerDone ==
    /\ spc = "inner"
    /\ now >= waitUntil
    /\ spc' = "loop"
    /\ sret' = NoSRet
    /\ UNCHANGED <<now, cfg, waitUntil, starget, slept>>
    /\ UNCHANGED schedFrame

\* WaitForSchedule has returned to its caller
SWReturn ==
    /\ spc = "done"
    /\ spc' = "idle"
    /\ sret' = NoSRet
    /\ waitUntil' = 0
    /\ starget' = 0
    /\ slept' = FALSE
    /\ UNCHANGED <<now, cfg>>
    /\ UNCHANGED schedFrame

\* the wall clock moves on to the next half hour
STick ==
    /\ spc = "idle"
    /\ (now \div HalfHour + 1) * HalfHour <= SchedHorizon
    /\ now' = (now \div HalfHour + 1) * HalfHour
    /\ sret' = NoSRet
    /\ UNCHANGED <<cfg, spc, waitUntil, starget, slept>>
    /\ UNCHANGED schedFrame

SchedInit ==
    /\ now = SchedEpoch
    /\ InitLimiter /\ InitWaiter /\ InitLock
    /\ InitScheduler(SchedConfigs)
    /\ InitSession
    /\ InitStealth

NextSched ==
    \/ \E draw \in Draws : IsWithinSchedule(draw)
    \/ SWStart
    \/ \E draw \in Draws, jitter \in Jitters : SWLoop(draw, jitter)
    \/ SWSleep
    \/ SWInnerDone
    \/ SWReturn
    \/ STick

SchedSpec == SchedInit /\ [][NextSched]_vars

\* --------------------------------------------------------- session clock
\* The Scheduler struct has no mutex: its methods read and write the three
\* fields directly.  Every field access is a begin step and an end step, so
\* that accesses of two goroutines can overlap; a read that overlaps a write
\* of the same field is a data race and may yield a torn value.

MaxActions == 2
SessionLen == 9

BreakBase == 2
BreakSpan == 8
ActionBase == 20
ActionSpan == 20
SessionBase == 45
SessionSpan == 45
SpontaneousPercent == 2

TornTime == 0 - 2

BreakDraws == {0, BreakSpan - 1}
ActionDraws == {0, ActionSpan - 1}
SessionDraws == {0, SessionSpan - 1}
ChanceDraws == {SpontaneousPercent - 1, SpontaneousPercent}
CountInputs == {0, ActionBase, ActionBase + 1}

Access(k, f) == [kind |-> k, field |-> f]

TakeBreakBody == <<Access("sleep", "none"), Access("write", "sessionStartAt")>>

RecordActivityBody ==
    <<Access("write", "lastActivityAt"),
      Access("read", "actionsThisHour"), Access("write", "actionsThisHour")>>

ResetSessionBody ==
    <<Access("write", "sessionStartAt"), Access("write", "actionsThisHour")>>

GetSessionDurationBody == <<Access("read", "sessionStartAt")>>

GetTimeSinceLastActivityBody ==
    <<Access("read", "lastActivityAt"), Access("read", "lastActivityAt")>>

ShouldTakeBreakBody == <<Access("read", "sessionStartAt")>>

SessionBody(op) ==
    CASE op = "TakeBreak" -> TakeBreakBody
      [] op = "RecordActivity" -> RecordActivityBody
      [] op = "ResetSession" -> ResetSessionBody
      [] op = "GetSessionDuration" -> GetSessionDurationBody
      [] op = "GetTimeSinceLastActivity" -> GetTimeSinceLastActivityBody
      [] op = "ShouldTakeBreak" -> ShouldTakeBreakBody

CurrentAccess(g) == SessionBody(gor[g].op)[gor[g].step]

FieldValue(f) ==
    CASE f = "sessionStartAt" -> sessionStartAt
      [] f = "lastActivityAt" -> lastActivityAt
      [] f = "actionsThisHour" -> actionsThisHour

\* two accesses of one field, at least one a write, in flight together
Conflict(g, h) ==
    /\ h # g
    /\ gor[h].busy
    /\ CurrentAccess(h).field = CurrentAccess(g).field
    /\ "write" \in {CurrentAccess(g).kind, CurrentAccess(h).kind}

\* the count rule without `actionsCount > 0`
ShouldTakeBreakByCountZero(count, a) ==
    count % (ActionBase + a) = 0

ShouldTakeBreakByCount(count, a) ==
    count > 0 /\ count % (ActionBase + a) = 0

ShouldTakeBreakLater(started, t, s, f) ==
    \/ t - started > (SessionBase + s) * Minute
    \/ f < SpontaneousPercent

Called(g, op) ==
    [IdleGor EXCEPT !.op = op, !.step = 1]

Done(g, op, d, b) ==
    [IdleGor EXCEPT !.last = op, !.dur = d, !.yes = b]

sessionFrame == <<limiterVars, wVars, lockVars, schedVars, stealthVars>>

TakeBreak(g, m) ==
    /\ gor[g].op = "idle"
    /\ now + (BreakBase + m) * Minute <= SessionLen
    /\ gor' = [gor EXCEPT ![g] =
                 [Called(g, "TakeBreak") EXCEPT
                    !.dur = (BreakBase + m) * Minute,
                    !.wake = now + (BreakBase + m) * Minute]]
    /\ UNCHANGED <<now, sessionStartAt, lastActivityAt, actionsThisHour,
                   sessionFrame>>

RecordActivity(g) ==
    /\ gor[g].op = "idle"
    /\ actionsThisHour < MaxActions
    /\ gor' = [gor EXCEPT ![g] = Called(g, "RecordActivity")]
    /\ UNCHANGED <<now, sessionStartAt, lastActivityAt, actionsThisHour,
                   sessionFrame>>

ResetSession(g) ==
    /\ gor[g].op = "idle"
    /\ gor' = [gor EXCEPT ![g] = Called(g, "ResetSession")]
    /\ UNCHANGED <<now, sessionStartAt, lastActivityAt, actionsThisHour,
                   sessionFrame>>

GetSessionDuration(g) ==
    /\ gor[g].op = "idle"
    /\ gor' = [gor EXCEPT ![g] = Called(g, "GetSessionDuration")]
    /\ UNCHANGED <<now, sessionStartAt, lastActivityAt, actionsThisHour,
                   sessionFrame>>

GetTimeSinceLastActivity(g) ==
    /\ gor[g].op = "idle"
    /\ gor' = [gor EXCEPT ![g] = Called(g, "GetTimeSinceLastActivity")]
    /\ UNCHANGED <<now, sessionStartAt, lastActivityAt, actionsThisHour,
                   sessionFrame>>

ShouldTakeBreak(g, count, a) ==
    /\ gor[g].op = "idle"
    /\ gor' = [gor EXCEPT ![g] =
                 IF ShouldTakeBreakByCount(count, a)
                 THEN Done(g, "ShouldTakeBreak", 0, TRUE)
                 ELSE Called(g, "ShouldTakeBreak")]
    /\ UNCHANGED <<now, sessionStartAt, lastActivityAt, actionsThisHour,
                   sessionFrame>>

\* time.Sleep(breakDuration) is over
SBreakOver(g) ==
    /\ gor[g].op # "idle"
    /\ ~gor[g].busy
    /\ CurrentAccess(g).kind = "sleep"
    /\ now >= gor[g].wake
    /\ gor' = [gor EXCEPT ![g].step = @ + 1]
    /\ UNCHANGED <<now, sessionStartAt, lastActivityAt, actionsThisHour,
                   sessionFrame>>

SAccessBegin(g) ==
    /\ gor[g].op # "idle"
    /\ ~gor[g].busy
    /\ CurrentAccess(g).kind \in {"read", "write"}
    /\ gor' = [h \in Goroutines |->
                 IF h = g
                 THEN [gor[g] EXCEPT
                         !.busy = TRUE,
                         !.raced = \E k \in Goroutines : Conflict(g, k)]
                 ELSE IF Conflict(g, h)
                      THEN [gor[h] EXCEPT !.raced = TRUE]
                      ELSE gor[h]]
    /\ UNCHANGED <<now, sessionStartAt, lastActivityAt, actionsThisHour,
                   sessionFrame>>

SWriteEnd(g) ==
    /\ gor[g].busy
    /\ CurrentAccess(g).kind = "write"
    /\ LET f == CurrentAccess(g).field
           op == gor[g].op
       IN  /\ sessionStartAt' =
                  IF f = "sessionStartAt" THEN now ELSE sessionStartAt
           /\ lastActivityAt' =
                  IF f = "lastActivityAt" THEN now ELSE lastActivityAt
           /\ actionsThisHour' =
                  IF f # "actionsThisHour" THEN actionsThisHour
                  ELSE IF op = "RecordActivity" THEN gor[g].val + 1 ELSE 0
           /\ gor' = [gor EXCEPT ![g] =
                        IF gor[g].step = Len(SessionBody(op))
                        THEN Done(g, op, gor[g].dur, FALSE)
                        ELSE [gor[g] EXCEPT !.step = @ + 1, !.busy = FALSE,
                                            !.raced = FALSE]]
    /\ UNCHANGED <<now, sessionFrame>>

SReadEnd(g, s, f) ==
    /\ gor[g].busy
    /\ CurrentAccess(g).kind = "read"
    /\ LET op == gor[g].op
           seen == {FieldValue(CurrentAccess(g).field)}
                     \cup (IF gor[g].raced THEN {TornTime} ELSE {})
       IN  \E v \in seen :
             gor' = [gor EXCEPT ![g] =
                CASE op = "GetSessionDuration" ->
                       Done(g, op, now - v, FALSE)
                  [] op = "ShouldTakeBreak" ->
                       Done(g, op, 0, ShouldTakeBreakLater(v, now, s, f))
                  [] op = "GetTimeSinceLastActivity" ->
                       IF gor[g].step = 1
                       THEN IF v = ZeroTime
                            THEN Done(g, op, 0, FALSE)
                            ELSE [gor[g] EXCEPT !.step = 2, !.busy = FALSE,
                                                !.raced = FALSE]
                       ELSE Done(g, op, now - v, FALSE)
                  [] OTHER ->
                       [gor[g] EXCEPT !.step = @ + 1, !.busy = FALSE,
                                      !.raced = FALSE, !.val = v]]
    /\ UNCHANGED <<now, sessionStartAt, lastActivityAt, actionsThisHour,
                   sessionFrame>>

SessionTick ==
    /\ now < SessionLen
    /\ now' = now + Minute
    /\ gor' = [g \in Goroutines |->
                 IF gor[g].op = "idle" THEN IdleGor ELSE gor[g]]
    /\ UNCHANGED <<sessionStartAt, lastActivityAt, actionsThisHour,
                   sessionFrame>>

SessionInit ==
    /\ now = 0
    /\ InitLimiter /\ InitWaiter /\ InitLock
    /\ InitScheduler({DefaultStealth})
    /\ InitSession
    /\ InitStealth

NextSession ==
    \/ \E m \in BreakDraws : TakeBreak("workflow", m)
    \/ RecordActivity("workflow")
    \/ ResetSession("workflow")
    \/ GetSessionDuration("status")
    \/ GetTimeSinceLastActivity("status")
    \/ \E count \in CountInputs, a \in ActionDraws :
          ShouldTakeBreak("status", count, a)
    \/ \E g \in Goroutines : SBreakOver(g)
    \/ \E g \in Goroutines : SAccessBegin(g)
    \/ \E g \in Goroutines : SWriteEnd(g)
    \/ \E g \in Goroutines, s \in SessionDraws, f \in ChanceDraws :
          SReadEnd(g, s, f)
    \/ SessionTick

SessionSpec == SessionInit /\ [][NextSession]_vars

\* ------------------------------------------------------- ShouldTakeBreak
\* One goroutine calling ShouldTakeBreak over a session of an hour and a half.

\* the session is followed for this many minutes
MaxSession == 92

\* instants around the earliest and the latest duration threshold
BreakInstants ==
    {0, 1, SessionBase, SessionBase + 1, SessionBase + SessionSpan - 1,
     SessionBase + SessionSpan, SessionBase + SessionSpan + 1, MaxSession}

\* actionsCount: below every divisor, the divisors' ends, and multiples
BreakCounts ==
    {0, 1, ActionBase - 1, ActionBase, ActionBase + 1,
     ActionBase + ActionSpan - 1, ActionBase + ActionSpan,
     2 * (ActionBase + ActionSpan - 1)}

\* rand.Intn(20): both ends and the draw that makes 21 the divisor
BreakActionDraws == {0, 1, ActionSpan - 1}

breakFrame == <<limiterVars, wVars, lockVars, schedVars, mouse, typing, scroll,
                timing>>

\* ShouldTakeBreak(lastActivity, actionsCount) run to its return: a is
\* rand.Intn(20), s is rand.Intn(45), f is rand.Float64() in percent
BShouldTakeBreak(count, a, s, f) ==
    /\ pure' = [op |-> "ShouldTakeBreak", count |-> count, a |-> a, s |-> s,
                f |-> f, duration |-> now - sessionStartAt,
                result |-> IF ShouldTakeBreakByCount(count, a) THEN TRUE
                           ELSE ShouldTakeBreakLater(sessionStartAt, now, s, f)]
    /\ UNCHANGED <<now, sessionVars, breakFrame>>

\* ResetSession()
BResetSession ==
    /\ sessionStartAt' = now
    /\ actionsThisHour' = 0
    /\ pure' = NoPure
    /\ UNCHANGED <<now, lastActivityAt, gor, breakFrame>>

\* the wall clock moves on
BreakTick ==
    /\ \E t \in BreakInstants : t > now /\ t <= MaxSession /\ now' = t
    /\ pure' = NoPure
    /\ UNCHANGED <<sessionVars, breakFrame>>

BreakInit ==
    /\ now = 0
    /\ InitLimiter /\ InitWaiter /\ InitLock
    /\ InitScheduler({DefaultStealth})
    /\ InitSession
    /\ InitStealth

NextBreak ==
    \/ \E count \in BreakCounts, a \in BreakActionDraws,
          s \in SessionDraws, f \in ChanceDraws :
          BShouldTakeBreak(count, a, s, f)
    \/ BResetSession
    \/ BreakTick

BreakSpec == BreakInit /\ [][NextBreak]_vars

\* ------------------------------------------------------ mouse movement
\* generateBezierPath, generateControlPoints, cubicBezier, applyOvershoot
\* and MoveTo.  rand.Float64() draws are percentages; products of float64
\* values are truncated to the fixed-point unit.

MinPoints == 20
PointSpacing == 10
OvershootPercent == 30
OvershootMin == 5
OvershootSpan == 10

MouseTargets == {Pt(0, 0), Pt(30, 40), Pt(180, 240)}

\* curvature factor 0.1 + rand*0.3 with its sign, in percent
CurvatureDraws == {0 - 39, 10}
\* the four 0.5 + rand*0.5 factors of the two control points, in percent
ShapeDraws == {<<50, 99, 99, 50>>, <<99, 50, 50, 99>>}
\* (rand - 0.5) * 2, for the x and y of the interior points
PathJitters == {<<0 - Scale, Scale - 1>>, <<Scale - 1, 0 - Scale>>}
OvershootChances == {OvershootPercent - 1, OvershootPercent}
OvershootDists == {OvershootMin * Scale, (OvershootMin + OvershootSpan) * Scale - 1}
\* (cos, sin) of the overshoot angle
OvershootAngles == {<<1, 0>>, <<0, 0 - 1>>}

Max(a, b) == IF a >= b THEN a ELSE b
Min(a, b) == IF a <= b THEN a ELSE b
Abs(a) == IF a < 0 THEN 0 - a ELSE a

\* math.Sqrt, truncated: the r in lo..hi with r*r <= x < (r+1)*(r+1)
RECURSIVE SqrtBetween(_, _, _)
SqrtBetween(x, lo, hi) ==
    IF lo >= hi THEN lo
    ELSE LET mid == (lo + hi + 1) \div 2
         IN  IF mid * mid <= x THEN SqrtBetween(x, mid, hi)
             ELSE SqrtBetween(x, lo, mid - 1)

Sqrt(x) == SqrtBetween(x, 0, Min(x, 400 * Scale))

Distance(a, b) ==
    Sqrt((b.x - a.x) * (b.x - a.x) + (b.y - a.y) * (b.y - a.y))

NumPoints(a, b) == Max(MinPoints, Distance(a, b) \div (PointSpacing * Scale))

generateControlPoints(a, b, cf, s) ==
    LET distance == Distance(a, b)
        curvature == (distance * cf) \div 100
        dx == b.x - a.x
        dy == b.y - a.y
        length == IF distance = 0 THEN Scale ELSE distance
        perpX == ((0 - dy) * curvature) \div length
        perpY == (dx * curvature) \div length
    IN  <<[x |-> a.x + dx \div 4 + (perpX * s[1]) \div 100,
           y |-> a.y + dy \div 4 + (perpY * s[2]) \div 100],
          [x |-> a.x + (3 * dx) \div 4 + (perpX * s[3]) \div 100,
           y |-> a.y + (3 * dy) \div 4 + (perpY * s[4]) \div 100]>>

\* cubicBezier at t = i / d
cubicBezier(i, d, p0, p1, p2, p3) ==
    LET mt == d - i
    IN  (mt * mt * mt * p0 + 3 * mt * mt * i * p1
           + 3 * mt * i * i * p2 + i * i * i * p3) \div (d * d * d)

JitteredAll(i, n) == TRUE

\* i > 0 && i < numPoints-1
Jittered(i, n) == i > 0 /\ i < n - 1

generateBezierPath(a, b, cf, s, jit) ==
    LET n == NumPoints(a, b)
        ctrl == generateControlPoints(a, b, cf, s)
    IN  [k \in 1..n |->
           LET i == k - 1
               x == cubicBezier(i, n - 1, a.x, ctrl[1].x, ctrl[2].x, b.x)
               y == cubicBezier(i, n - 1, a.y, ctrl[1].y, ctrl[2].y, b.y)
               j == IF i % 2 = 1 THEN jit ELSE <<jit[2], jit[1]>>
           IN  IF Jittered(i, n)
               THEN [x |-> x + j[1], y |-> y + j[2]]
               ELSE [x |-> x, y |-> y]]

applyOvershootNoCorrection(target, dist, angle) ==
    <<target,
      [x |-> target.x + angle[1] * dist, y |-> target.y + angle[2] * dist]>>

\* the two MustMoveTo of applyOvershoot
applyOvershoot(target, dist, angle) ==
    <<[x |-> target.x + angle[1] * dist, y |-> target.y + angle[2] * dist],
      target>>

mouseFrame == <<typing, scroll, timing, pure, rlVars, wVars, lockVars, schedVars,
                sessionVars>>

\* MoveTo(page, target).  fail = 0: every MustMoveTo succeeds; fail = k: the
\* k-th MustMoveTo of the call panics and MoveTo does not return.
MoveTo(target, path, chance, dist, angle, fail) ==
    LET overshoot == mouse.enableOvershoot /\ chance < OvershootPercent
        moves == IF overshoot
                 THEN path \o applyOvershoot(target, dist, angle)
                 ELSE path
    IN  /\ fail <= Len(moves)
        /\ mouse' =
             IF fail = 0
             THEN [mouse EXCEPT !.start = mouse.last, !.target = target,
                                !.path = path, !.sent = moves,
                                !.overshot = overshoot,
                                !.last = target, !.result = "nil"]
             ELSE [mouse EXCEPT !.start = mouse.last, !.target = target,
                                !.path = path,
                                !.sent = SubSeq(moves, 1, fail - 1),
                                !.overshot = overshoot /\ fail > Len(path) + 1,
                                !.result = "panic"]
        /\ UNCHANGED mouseFrame

\* the paths generateBezierPath can return for a move to target
Paths(target) ==
    {generateBezierPath(mouse.last, target, cf, s, jit) :
        cf \in CurvatureDraws, s \in ShapeDraws, jit \in PathJitters}

SetPosition(p) ==
    /\ mouse' = [IdleMouse EXCEPT !.enableOvershoot = mouse.enableOvershoot,
                                  !.last = p]
    /\ UNCHANGED mouseFrame

\* which MustMoveTo may fail: none, the first, the last of the path, or
\* one of the two of the overshoot
MoveFailures == {0, 1, MinPoints, MinPoints + 1, MinPoints + 2}

MouseInit ==
    /\ now = 0
    /\ InitLimiter /\ InitWaiter /\ InitLock
    /\ InitScheduler({DefaultStealth})
    /\ InitSession
    /\ pure = NoPure
    /\ mouse \in {[IdleMouse EXCEPT !.enableOvershoot = b] : b \in BOOLEAN}
    /\ typing = IdleTyping
    /\ scroll = IdleScroll
    /\ timing = IdleTiming

NextMouse ==
    \/ \E target \in MouseTargets :
          \E path \in Paths(target), chance \in OvershootChances,
             dist \in OvershootDists, angle \in OvershootAngles,
             fail \in MoveFailures :
             MoveTo(target, path, chance, dist, angle, fail)
    \/ \E p \in MouseTargets : SetPosition(p)

MouseSpec == MouseInit /\ [][NextMouse]_vars

\* -------------------------------------------------------------- typing
\* getNearbyKey, makeAndCorrectTypo, TypeText and TypeWithPauses.  A key is
\* a one-character string or Backspace; a driver call that fails leaves the
\* element as it was.

MaxText == 2
MaxFailures == 1

Backspace == "BS"
Lower ==
    <<"a", "b", "c", "d", "e", "f", "g", "h", "i", "j", "k", "l", "m",
      "n", "o", "p", "q", "r", "s", "t", "u", "v", "w", "x", "y", "z">>
Upper ==
    <<"A", "B", "C", "D", "E", "F", "G", "H", "I", "J", "K", "L", "M",
      "N", "O", "P", "Q", "R", "S", "T", "U", "V", "W", "X", "Y", "Z">>

Range(f) == {f[k] : k \in DOMAIN f}
LowerLetters == Range(Lower)
UpperLetters == Range(Upper)

\* unicode.ToLower, unicode.ToUpper, unicode.IsUpper on the keys used
ToLower(ch) ==
    IF ch \in UpperLetters
    THEN Lower[CHOOSE k \in DOMAIN Upper : Upper[k] = ch] ELSE ch
ToUpper(ch) ==
    IF ch \in LowerLetters
    THEN Upper[CHOOSE k \in DOMAIN Lower : Lower[k] = ch] ELSE ch
IsUpper(ch) == ch \in UpperLetters

neighbors ==
    [q |-> <<"w", "a", "1", "2">>,
     w |-> <<"q", "e", "s", "a", "2", "3">>,
     e |-> <<"w", "r", "d", "s", "3", "4">>,
     r |-> <<"e", "t", "f", "d", "4", "5">>,
     t |-> <<"r", "y", "g", "f", "5", "6">>,
     y |-> <<"t", "u", "h", "g", "6", "7">>,
     u |-> <<"y", "i", "j", "h", "7", "8">>,
     i |-> <<"u", "o", "k", "j", "8", "9">>,
     o |-> <<"i", "p", "l", "k", "9", "0">>,
     p |-> <<"o", "l", "0", "-">>,
     a |-> <<"q", "w", "s", "z">>,
     s |-> <<"a", "w", "e", "d", "z", "x">>,
     d |-> <<"s", "e", "r", "f", "x", "c">>,
     f |-> <<"d", "r", "t", "g", "c", "v">>,
     g |-> <<"f", "t", "y", "h", "v", "b">>,
     h |-> <<"g", "y", "u", "j", "b", "n">>,
     j |-> <<"h", "u", "i", "k", "n", "m">>,
     k |-> <<"j", "i", "o", "l", "m", ",">>,
     l |-> <<"k", "o", "p", ",", ".">>,
     z |-> <<"a", "s", "x">>,
     x |-> <<"z", "s", "d", "c">>,
     c |-> <<"x", "d", "f", "v">>,
     v |-> <<"c", "f", "g", "b">>,
     b |-> <<"v", "g", "h", "n">>,
     n |-> <<"b", "h", "j", "m">>,
     m |-> <<"n", "j", "k", ",">>]

\* rand.Intn(len(nearby)) is draw % len(nearby)
getNearbyKeyLower(char, draw) ==
    LET lowerChar == ToLower(char)
    IN  IF lowerChar \in DOMAIN neighbors /\ Len(neighbors[lowerChar]) > 0
        THEN neighbors[lowerChar][(draw % Len(neighbors[lowerChar])) + 1]
        ELSE char

getNearbyKey(char, draw) ==
    LET lowerChar == ToLower(char)
    IN  IF lowerChar \in DOMAIN neighbors /\ Len(neighbors[lowerChar]) > 0
        THEN LET nearby == neighbors[lowerChar]
                 typo == nearby[(draw % Len(nearby)) + 1]
             IN  IF IsUpper(char) THEN ToUpper(typo) ELSE typo
        ELSE char

KeyDraws == 0..5
KeyChars == LowerLetters \cup UpperLetters \cup {"1", ",", " "}

typingFrame == <<mouse, scroll, timing, pure, rlVars, wVars, lockVars, schedVars,
                 sessionVars>>

\* one call of getNearbyKey
GetNearbyKey(char, draw) ==
    /\ typing' = [IdleTyping EXCEPT !.op = "getNearbyKey", !.text = <<char>>,
                                    !.sent = <<getNearbyKey(char, draw)>>]
    /\ UNCHANGED typingFrame

KeyInit ==
    /\ now = 0
    /\ InitLimiter /\ InitWaiter /\ InitLock
    /\ InitScheduler({DefaultStealth})
    /\ InitSession
    /\ InitStealth

NextKey == \E char \in KeyChars, draw \in KeyDraws : GetNearbyKey(char, draw)

KeySpec == KeyInit /\ [][NextKey]_vars

\* the texts typed, the rand.Float64() draws of shouldMakeTypo in percent,
\* and the configurations (EnableTypos, TypoProbability in percent)
TextChars == {"a", "Q", " "}
RECURSIVE TextsOfLen(_)
TextsOfLen(n) ==
    IF n = 0 THEN {<<>>}
    ELSE {Append(t, ch) : t \in TextsOfLen(n - 1), ch \in TextChars}
Texts == UNION {TextsOfLen(n) : n \in 0..MaxText}
TypoChances == {2, 3}
TypoDraws == {0, 3}
TypingConfigs ==
    {[IdleTyping EXCEPT !.enableTypos = e, !.typoPercent = pr] :
        e \in BOOLEAN, pr \in {0, 3}}

\* strings.Split(text, " ")
RECURSIVE Split(_)
Split(text) ==
    IF \A k \in DOMAIN text : text[k] # " " THEN <<text>>
    ELSE LET k == CHOOSE j \in DOMAIN text :
                     text[j] = " " /\ \A h \in 1..(j - 1) : text[h] # " "
         IN  <<SubSeq(text, 1, k - 1)>>
               \o Split(SubSeq(text, k + 1, Len(text)))

\* what the element holds after a key that the driver delivered
Press(field, key) ==
    IF key = Backspace
    THEN (IF Len(field) = 0 THEN field ELSE SubSeq(field, 1, Len(field) - 1))
    ELSE Append(field, key)

\* a driver call: key sent, ok or failed
Deliver(t, key, ok) ==
    [t EXCEPT !.sent = Append(@, [key |-> key, ok |-> ok]),
              !.field = IF ok THEN Press(@, key) ELSE @,
              !.failures = IF ok THEN @ ELSE @ + 1]

\* at most MaxFailures steps of a call meet a failing driver
CanFail(ok) == ok \/ typing.faulty < MaxFailures
Faulty(t, ok) == [t EXCEPT !.faulty = IF ok THEN @ ELSE @ + 1]

TypingCalled(op, text) ==
    [IdleTyping EXCEPT !.enableTypos = typing.enableTypos,
                       !.typoPercent = typing.typoPercent,
                       !.op = op, !.pc = "focus", !.text = text,
                       !.words = IF op = "TypeText" THEN <<text>>
                                 ELSE Split(text),
                       !.w = 1]

TypeText(text) ==
    /\ typing.pc \in {"idle", "done"}
    /\ typing' = TypingCalled("TypeText", text)
    /\ UNCHANGED typingFrame

TypeWithPauses(text) ==
    /\ typing.pc \in {"idle", "done"}
    /\ typing' = TypingCalled("TypeWithPauses", text)
    /\ UNCHANGED typingFrame

\* element.Focus() at the start of TypeText
TFocus(ok) ==
    /\ typing.pc = "focus"
    /\ CanFail(ok)
    /\ typing' = IF ok THEN [typing EXCEPT !.pc = "char", !.i = 1]
                 ELSE [typing EXCEPT !.pc = "done", !.result = "err",
                                     !.failures = @ + 1, !.faulty = @ + 1]
    /\ UNCHANGED typingFrame

makeAndCorrectTypoNoBackspace(t, intended, draw, oks) ==
    LET typoChar == getNearbyKey(intended, draw)
    IN  Deliver(Deliver(t, typoChar, oks[1]), intended, oks[3])

\* the three element.Type calls, their errors dropped
makeAndCorrectTypo(t, intended, draw, oks) ==
    LET typoChar == getNearbyKey(intended, draw)
    IN  Deliver(Deliver(Deliver(t, typoChar, oks[1]), Backspace, oks[2]),
                intended, oks[3])

\* one round of the loop of TypeText
TChar(chance, draw, oks) ==
    /\ typing.pc = "char"
    /\ typing.i <= Len(typing.words[typing.w])
    /\ CanFail(oks = <<TRUE, TRUE, TRUE>>)
    /\ LET char == typing.words[typing.w][typing.i]
           t == Faulty(typing, oks = <<TRUE, TRUE, TRUE>>)
       IN  IF typing.enableTypos /\ chance < typing.typoPercent
           THEN typing' =
                  [makeAndCorrectTypo(t, char, draw, oks) EXCEPT
                     !.i = @ + 1, !.typos = @ + 1,
                     !.lost = IF oks[3] THEN @ ELSE @ + 1]
           ELSE /\ oks[3]
                /\ typing' =
                     IF oks[1]
                     THEN [Deliver(t, char, TRUE) EXCEPT !.i = @ + 1]
                     ELSE IF oks[2]
                     THEN [Deliver(Deliver(t, char, FALSE), char, TRUE)
                             EXCEPT !.i = @ + 1]
                     ELSE [Deliver(Deliver(t, char, FALSE), char, FALSE)
                             EXCEPT !.pc = "done", !.result = "err"]
    /\ UNCHANGED typingFrame

\* TypeText returns nil; TypeWithPauses goes on with the space, if any
TWordDone(ok) ==
    /\ typing.pc = "char"
    /\ typing.i > Len(typing.words[typing.w])
    /\ CanFail(ok)
    /\ ok \/ (typing.op = "TypeWithPauses" /\ typing.w < Len(typing.words))
    /\ typing' =
         IF typing.op = "TypeWithPauses" /\ typing.w < Len(typing.words)
         THEN [Deliver(Faulty(typing, ok), " ", ok) EXCEPT
                 !.w = @ + 1, !.pc = "focus",
                 !.lost = IF ok THEN @ ELSE @ + 1]
         ELSE [typing EXCEPT !.pc = "done", !.result = "nil"]
    /\ UNCHANGED typingFrame

OkTriples == {<<TRUE, TRUE, TRUE>>, <<FALSE, TRUE, TRUE>>,
              <<TRUE, FALSE, TRUE>>, <<TRUE, TRUE, FALSE>>,
              <<FALSE, FALSE, TRUE>>}

TypeInit ==
    /\ now = 0
    /\ InitLimiter /\ InitWaiter /\ InitLock
    /\ InitScheduler({DefaultStealth})
    /\ InitSession
    /\ pure = NoPure
    /\ mouse = IdleMouse
    /\ typing \in TypingConfigs
    /\ scroll = IdleScroll
    /\ timing = IdleTiming

NextType ==
    \/ \E text \in Texts : TypeText(text)
    \/ \E text \in Texts : TypeWithPauses(text)
    \/ \E ok \in BOOLEAN : TFocus(ok)
    \/ \E chance \in TypoChances, draw \in TypoDraws, oks \in OkTriples :
          TChar(chance, draw, oks)
    \/ \E ok \in BOOLEAN : TWordDone(ok)

TypeSpec == TypeInit /\ [][NextType]_vars

\* ------------------------------------------------------ keystroke delay
\* calculateKeystrokeDelay.  A multiplier is kept in thousandths and a value
\* of rand.Float64() in hundredths, so 1.5 + rand.Float64()*0.5 is
\* 1500 + 5 * u.

\* the default configuration: the Stealth section's hours, typing and
\* scrolling numbers and the Limits section's delays
DefaultConfig ==
    [businessHoursOnly |-> DefaultStealth.businessHoursOnly,
     startHour |-> DefaultStealth.startHour,
     endHour |-> DefaultStealth.endHour,
     minTypingDelayMs |-> 50, maxTypingDelayMs |-> 200,
     scrollSpeedMin |-> 100, scrollSpeedMax |-> 400,
     minDelaySeconds |-> 30, maxDelaySeconds |-> 90]

\* Config.Validate on the fields above: TRUE when no error is collected
Validate(c) ==
    /\ ~(c.minDelaySeconds <= 0)
    /\ ~(c.maxDelaySeconds < c.minDelaySeconds)
    /\ ~(c.startHour < 0 \/ c.startHour > 23)
    /\ ~(c.endHour < 0 \/ c.endHour > 23)
    /\ ~(c.startHour >= c.endHour)
    /\ ~(c.minTypingDelayMs <= 0)
    /\ ~(c.maxTypingDelayMs < c.minTypingDelayMs)

PausePercent == 2

Punctuation == {".", ",", "!", "?", ";", ":"}

commonPairs ==
    {<<"t", "h">>, <<"h", "e">>, <<"i", "n">>, <<"e", "r">>, <<"a", "n">>,
     <<"r", "e">>, <<"o", "n">>, <<"a", "t">>, <<"e", "n">>, <<"n", "d">>,
     <<"t", "i">>, <<"e", "s">>, <<"o", "r">>, <<"t", "e">>, <<"o", "f">>,
     <<"e", "d">>, <<"i", "s">>, <<"i", "t">>, <<"a", "l">>, <<"a", "r">>,
     <<"s", "t">>, <<"t", "o">>, <<"n", "t">>, <<"n", "g">>, <<"s", "e">>,
     <<"h", "a">>, <<"a", "s">>, <<"o", "u">>, <<"i", "o">>, <<"l", "e">>,
     <<"v", "e">>, <<"c", "o">>, <<"m", "e">>, <<"d", "e">>, <<"h", "i">>,
     <<"r", "i">>, <<"r", "o">>, <<"i", "c">>, <<"n", "e">>, <<"e", "a">>,
     <<"r", "a">>, <<"c", "e">>}

\* rand.Intn(n) panics unless n > 0
IntnPanics(n) == n <= 0

\* `index > 0 && strings.ContainsRune(".,!?;:", text[index-1])`; index
\* counts from 0 and text[index-1] is the model's text[index]
AfterPunctuation(text, index) == index > 0 /\ text[index] \in Punctuation

AtSpace(char) == char = " "

IsCommonPair(text, index, char) ==
    index > 0 /\ <<ToLower(text[index]), ToLower(char)>> \in commonPairs

\* `multiplier = 2.0 + rand.Float64()`
Pause(u) == 2000 + 10 * u

\* the four `if` statements in their order, each assigning the multiplier;
\* u[1..4] are their rand.Float64() draws and chance the draw of the pause
Multiplier(char, text, index, u, chance) ==
    LET m0 == 1000
        m1 == IF AfterPunctuation(text, index) THEN 1500 + 5 * u[1] ELSE m0
        m2 == IF AtSpace(char) THEN 1200 + 3 * u[2] ELSE m1
        m3 == IF IsCommonPair(text, index, char) THEN 700 + 2 * u[3] ELSE m2
    IN  IF chance < PausePercent THEN Pause(u[4]) ELSE m3

\* calculateKeystrokeDelay(char, text, index) with b = rand.Intn(max - min)
calculateKeystrokeDelay(c, char, text, index, b, u, chance) ==
    LET baseDelay == c.minTypingDelayMs + b
        multiplier == Multiplier(char, text, index, u, chance)
    IN  [op |-> "calculateKeystrokeDelay", text |-> text, index |-> index,
         panicked |-> IntnPanics(c.maxTypingDelayMs - c.minTypingDelayMs),
         baseDelay |-> baseDelay, multiplier |-> multiplier,
         paused |-> chance < PausePercent,
         delay |-> (baseDelay * multiplier) \div 1000]

\* what rand.Intn(n) can return: its two ends (a panic returns nothing)
IntnDraws(n) == IF n > 0 THEN {0, n - 1} ELSE {0}

FloatDraws == [1..4 -> {0, 50, 99}]
PauseChances == {PausePercent - 1, PausePercent}

\* texts with a space after a period, a letter after a period, a common
\* pair in mixed case, a space after a letter, and no rule at all
KeystrokeTexts ==
    {<<".", " ">>, <<".", "H">>, <<"t", "H">>, <<"x", " ">>, <<"x", "x">>,
     <<";", "e">>, <<"e", "R">>, <<" ">>}

pureFrame == <<mouse, typing, scroll, timing, rlVars, wVars, lockVars,
               schedVars, sessionVars>>

\* a program that panicked is gone
Panicked ==
    \/ pure.op = "calculateKeystrokeDelay" /\ pure.panicked
    \/ scroll.result = "panic"

\* TypeText is at rune index of text and computes the delay after it
CalculateKeystrokeDelay(text, index, b, u, chance) ==
    /\ ~Panicked
    /\ pure' = calculateKeystrokeDelay(cfg, text[index + 1], text, index, b,
                                       u, chance)
    /\ UNCHANGED pureFrame

KeystrokeInit ==
    /\ now = 0
    /\ InitLimiter /\ InitWaiter /\ InitLock
    /\ InitScheduler({DefaultConfig})
    /\ InitSession
    /\ InitStealth

NextKeystroke ==
    \E text \in KeystrokeTexts, u \in FloatDraws, chance \in PauseChances :
      \E index \in 0..(Len(text) - 1),
         b \in IntnDraws(cfg.maxTypingDelayMs - cfg.minTypingDelayMs) :
         CalculateKeystrokeDelay(text, index, b, u, chance)

KeystrokeSpec == KeystrokeInit /\ [][NextKeystroke]_vars

\* ------------------------------------------------------------ scrolling
\* ScrollTo, calculateScrollSteps and applyScrollCorrection.  scroll.y is
\* the page's vertical offset, which a successful window.scrollTo sets.

ScrollThreshold == 10
MinSteps == 5
StepDistance == 50
MaxSteps == 30
ScrollBackPercent == 20
CorrectionMin == 20
CorrectionSpan == 30

ScrollTargets == {0, 95, 100, 109, 110, 400, 2000}
ScrollBackChances == {ScrollBackPercent - 1, ScrollBackPercent}
\* 20 + rand.Intn(30), with its sign
Corrections ==
    {CorrectionMin, 0 - CorrectionMin, CorrectionMin + CorrectionSpan - 1}
\* which page.Eval fails: none, the read of the position, or the first step
NoFailure == 0
ReadFails == 0 - 1
ScrollFailures == {NoFailure, ReadFails, 1}

\* int(x) of a quotient: towards zero
Trunc(a, b) == IF a >= 0 THEN a \div b ELSE 0 - ((0 - a) \div b)

AlreadyThereWithin5(distance) == Abs(distance) < 5

\* math.Abs(float64(distance)) < 10
AlreadyThere(distance) == Abs(distance) < ScrollThreshold

\* calculateScrollSteps without `if numSteps > 30`
calculateScrollStepsUncapped(startY, endY) ==
    LET distance == endY - startY
        numSteps == Max(MinSteps, Abs(distance) \div StepDistance)
        cube == numSteps * numSteps * numSteps
    IN  [k \in 1..numSteps |->
           LET rest == numSteps - k
           IN  startY + Trunc(distance * (cube - rest * rest * rest), cube)]

\* the positions of calculateScrollSteps: eased = 1 - (1 - t)^3 at
\* t = (i+1)/numSteps
calculateScrollSteps(startY, endY) ==
    LET distance == endY - startY
        numSteps == Min(MaxSteps, Max(MinSteps, Abs(distance) \div StepDistance))
        cube == numSteps * numSteps * numSteps
    IN  [k \in 1..numSteps |->
           LET rest == numSteps - k
           IN  startY + Trunc(distance * (cube - rest * rest * rest), cube)]

\* the two page.Eval of applyScrollCorrection, their errors dropped
applyScrollCorrection(targetY, overshoot) == <<targetY + overshoot, targetY>>

\* the offset the browser takes for window.scrollTo(0, position)
Offset(position) == Max(0, position)

scrollFrame == <<mouse, typing, timing, pure, rlVars, wVars, lockVars, schedVars,
                 sessionVars>>

ScrollCalled(targetY) ==
    [IdleScroll EXCEPT !.enableScrollBack = scroll.enableScrollBack,
                       !.y = scroll.y, !.from = scroll.y, !.target = targetY]

ScrollTo(targetY, fail, chance, overshoot, corrOk) ==
    LET call == ScrollCalled(targetY)
        currentY == scroll.y
        steps == calculateScrollSteps(currentY, targetY)
        back == scroll.enableScrollBack /\ chance < ScrollBackPercent
        fix == applyScrollCorrection(targetY, overshoot)
    IN  /\ scroll' =
             IF fail = ReadFails
             THEN [call EXCEPT !.result = "err", !.readFailed = TRUE]
             ELSE IF AlreadyThere(targetY - currentY)
             THEN [call EXCEPT !.result = "nil"]
             ELSE IF fail # NoFailure /\ fail <= Len(steps)
             THEN [call EXCEPT !.result = "err",
                               !.sent = SubSeq(steps, 1, fail),
                               !.y = IF fail = 1 THEN currentY
                                     ELSE Offset(steps[fail - 1])]
             ELSE IF back
             THEN [call EXCEPT !.result = "nil", !.sent = steps \o fix,
                               !.corrected = TRUE,
                               !.y = IF corrOk[2] THEN Offset(fix[2])
                                     ELSE IF corrOk[1] THEN Offset(fix[1])
                                     ELSE Offset(targetY)]
             ELSE [call EXCEPT !.result = "nil", !.sent = steps,
                               !.y = Offset(targetY)]
        /\ UNCHANGED scrollFrame

ScrollInit ==
    /\ now = 0
    /\ InitLimiter /\ InitWaiter /\ InitLock
    /\ InitScheduler({DefaultStealth})
    /\ InitSession
    /\ pure = NoPure
    /\ mouse = IdleMouse
    /\ typing = IdleTyping
    /\ scroll \in {[IdleScroll EXCEPT !.enableScrollBack = b] : b \in BOOLEAN}
    /\ timing = IdleTiming

NextScroll ==
    \E targetY \in ScrollTargets, fail \in ScrollFailures,
       chance \in ScrollBackChances, overshoot \in Corrections,
       corrOk \in {<<TRUE, TRUE>>, <<TRUE, FALSE>>, <<FALSE, TRUE>>} :
       ScrollTo(targetY, fail, chance, overshoot, corrOk)

ScrollSpec == ScrollInit /\ [][NextScroll]_vars

\* --------------------------------------------------------------- timing
\* RandomDelay.  Delays are kept in eighths of a second, so that the mean
\* (min+max)/2, the deviation (max-min)/4 and a sample z given in halves are
\* exact; the duration slept is in milliseconds.

MaxSeconds == 5

Eighths == 8
DefaultMinSeconds == 1
DefaultMaxSeconds == 3

Seconds == 0..MaxSeconds
\* twice the normalRandom sample z: up to 4 deviations either way
ZDraws == {0 - 8, 0 - 5, 0 - 4, 0 - 1, 0, 1, 4, 5, 8}

ClampBelow(x, lo, hi) == IF x < lo THEN lo ELSE x

\* if delay < min { delay = min }; if delay > max { delay = max }
Clamp(x, lo, hi) ==
    LET y == IF x < lo THEN lo ELSE x
    IN  IF y > hi THEN hi ELSE y

timingFrame == <<mouse, typing, scroll, pure, rlVars, wVars, lockVars, schedVars,
                 sessionVars>>

RandomDelay(minSeconds, maxSeconds, z) ==
    LET lo == IF minSeconds >= maxSeconds THEN DefaultMinSeconds
              ELSE minSeconds
        hi == IF minSeconds >= maxSeconds THEN DefaultMaxSeconds
              ELSE maxSeconds
        mean == (Eighths \div 2) * (lo + hi)
        sample == mean + z * (hi - lo)
        delay == Clamp(sample, Eighths * lo, Eighths * hi)
    IN  /\ timing' = [min |-> minSeconds, max |-> maxSeconds,
                      lo |-> lo, hi |-> hi, sample |-> sample,
                      slept |-> (delay * 1000) \div Eighths,
                      called |-> TRUE]
        /\ UNCHANGED timingFrame

TimingInit ==
    /\ now = 0
    /\ InitLimiter /\ InitWaiter /\ InitLock
    /\ InitScheduler({DefaultStealth})
    /\ InitSession
    /\ InitStealth

NextTiming ==
    \E minSeconds \in Seconds, maxSeconds \in Seconds, z \in ZDraws :
       RandomDelay(minSeconds, maxSeconds, z)

TimingSpec == TimingInit /\ [][NextTiming]_vars

\* ------------------------------------------- sampling under a valid config
\* calculateKeystrokeDelay, ScrollDown and ScrollUp under every
\* configuration of a small family that Config.Validate accepts.

\* the page is followed down to this offset
MaxOffset == 800

\* typing delays and scroll speeds around equality of min and max
SamplingCandidates ==
    {[DefaultConfig EXCEPT !.minTypingDelayMs = t[1],
                           !.maxTypingDelayMs = t[2],
                           !.scrollSpeedMin = s[1], !.scrollSpeedMax = s[2]] :
        t \in {<<50, 200>>, <<50, 50>>, <<50, 49>>, <<0, 200>>},
        s \in {<<100, 400>>, <<100, 100>>, <<400, 100>>}}

AcceptedConfigs == {c \in SamplingCandidates : Validate(c)}

\* ScrollDown(page): the amount is sampled before anything else
ScrollDown(b, fail) ==
    /\ ~Panicked
    /\ scroll.y <= MaxOffset
    /\ IF IntnPanics(cfg.scrollSpeedMax - cfg.scrollSpeedMin)
       THEN /\ scroll' = [ScrollCalled(scroll.y) EXCEPT !.result = "panic"]
            /\ UNCHANGED scrollFrame
       ELSE ScrollTo(scroll.y + cfg.scrollSpeedMin + b, fail,
                     ScrollBackPercent, CorrectionMin, <<TRUE, TRUE>>)

\* ScrollUp(page): `if targetY < 0 { targetY = 0 }`
ScrollUp(b, fail) ==
    /\ ~Panicked
    /\ IF IntnPanics(cfg.scrollSpeedMax - cfg.scrollSpeedMin)
       THEN /\ scroll' = [ScrollCalled(scroll.y) EXCEPT !.result = "panic"]
            /\ UNCHANGED scrollFrame
       ELSE ScrollTo(Max(0, scroll.y - (cfg.scrollSpeedMin + b)), fail,
                     ScrollBackPercent, CorrectionMin, <<TRUE, TRUE>>)

SampleInit ==
    /\ now = 0
    /\ InitLimiter /\ InitWaiter /\ InitLock
    /\ InitScheduler(AcceptedConfigs)
    /\ InitSession
    /\ InitStealth

NextSample ==
    \/ \E b \in IntnDraws(cfg.maxTypingDelayMs - cfg.minTypingDelayMs) :
          CalculateKeystrokeDelay(<<"x">>, 0, b, [k \in 1..4 |-> 0],
                                  PausePercent)
    \/ \E b \in IntnDraws(cfg.scrollSpeedMax - cfg.scrollSpeedMin),
          fail \in {NoFailure, ReadFails} : ScrollDown(b, fail)
    \/ \E b \in IntnDraws(cfg.scrollSpeedMax - cfg.scrollSpeedMin),
          fail \in {NoFailure, ReadFails} : ScrollUp(b, fail)

SampleSpec == SampleInit /\ [][NextSample]_vars

\* ---------------------------------------------- pauses between requests
\* The pause of ProcessPendingProfiles between two connection requests and
\* of SendFollowups between two messages, under accepted configurations.

\* MinDelaySeconds and MaxDelaySeconds around equality; those with
\* MinDelaySeconds = 0 or MaxDelaySeconds below it are rejected
DelayCandidates ==
    {[DefaultConfig EXCEPT !.minDelaySeconds = lo,
                           !.maxDelaySeconds = lo + span] :
        lo \in {0, 1, 4, 30}, span \in {0 - 1, 0, 1, 2, 3, 60}}

AcceptedDelays == {c \in DelayCandidates : Validate(c)}

\* `delay := Min + (Max-Min)/2` and `RandomDelay(Min, delay)`
ProcessPendingProfilesPause(z) ==
    RandomDelay(cfg.minDelaySeconds,
                cfg.minDelaySeconds
                    + (cfg.maxDelaySeconds - cfg.minDelaySeconds) \div 2,
                z)

\* `RandomDelay(m.config.MinDelaySeconds, m.config.MaxDelaySeconds)`
SendFollowupsPause(z) ==
    RandomDelay(cfg.minDelaySeconds, cfg.maxDelaySeconds, z)

PauseInit ==
    /\ now = 0
    /\ InitLimiter /\ InitWaiter /\ InitLock
    /\ InitScheduler(AcceptedDelays)
    /\ InitSession
    /\ InitStealth

NextPause ==
    \/ \E z \in ZDraws : ProcessPendingProfilesPause(z)
    \/ \E z \in ZDraws : SendFollowupsPause(z)

PauseSpec == PauseInit /\ [][NextPause]_vars

\* ------------------------------------------------ claims on CanPerform

\* the category's records that lie strictly inside the trailing window w
InWindow(c, w) ==
    Cardinality({i \in DOMAIN actionCounts[c] : now - actionCounts[c][i] < w})

\* the category has a cooldown whose end is strictly after now
Blocked(c) == cooldowns[c].ok /\ cooldowns[c].end > now

Returned(op) == ret.op = op

\* C1: CanPerform decides in a fixed order: cooldown end strictly after now
\* gives (false, "in cooldown"); else 1-hour count >= hourlyLimit gives
\* (false, "hourly limit reached"); else 24-hour count >= dailyLimit gives
\* (false, "daily limit reached"); else (true, "").
C1_CanPerformOrder ==
    Returned("CanPerform") =>
        LET c == ret.cat
            h == InWindow(c, Hour)
            d == InWindow(c, Day)
        IN IF Blocked(c)
               THEN ~ret.allowed /\ ret.reason = "in cooldown"
           ELSE IF h >= ret.lim.hourly
               THEN ~ret.allowed /\ ret.reason = "hourly limit reached"
           ELSE IF d >= ret.lim.daily
               THEN ~ret.allowed /\ ret.reason = "daily limit reached"
           ELSE ret.allowed /\ ret.reason = ""

\* hourlyLimit records, all made at the current time, no cooldown, the daily
\* limit reached as well, and CanPerform answered "hourly limit reached"
C1_Witness ==
    /\ Returned("CanPerform")
    /\ ret.reason = "hourly limit reached"
    /\ ~cooldowns[ret.cat].ok
    /\ ret.lim.hourly > 0
    /\ Len(actionCounts[ret.cat]) = ret.lim.hourly
    /\ \A i \in DOMAIN actionCounts[ret.cat] : actionCounts[ret.cat][i] = now
    /\ InWindow(ret.cat, Day) >= ret.lim.daily

\* C2 as stated (for positive limits): CanPerform returns false whenever the
\* 24-hour count is >= dailyLimit, and returns true in the call that prunes
\* the aged-out entries and finds the 24-hour count dropped below dailyLimit.
C2_Original ==
    (Returned("CanPerform") /\ ret.lim.hourly > 0 /\ ret.lim.daily > 0) =>
        LET d == InWindow(ret.cat, Day)
        IN /\ d >= ret.lim.daily => ~ret.allowed
           /\ (ret.pruned > 0 /\ d + ret.pruned >= ret.lim.daily
                 /\ d < ret.lim.daily) => ret.allowed

\* C2 amended: CanPerform returns false whenever the 24-hour count is
\* >= dailyLimit; once that count is below dailyLimit it returns true
\* provided no cooldown is active and the 1-hour count is below hourlyLimit.
C2_DailyLimit ==
    Returned("CanPerform") =>
        LET d == InWindow(ret.cat, Day)
            h == InWindow(ret.cat, Hour)
        IN /\ d >= ret.lim.daily => ~ret.allowed
           /\ (d < ret.lim.daily /\ h < ret.lim.hourly /\ ~Blocked(ret.cat))
                 => ret.allowed

\* the call that pruned aged-out entries, saw the count drop below the daily
\* limit and allowed the action
C2_Witness ==
    /\ Returned("CanPerform")
    /\ ret.allowed
    /\ ret.pruned > 0
    /\ InWindow(ret.cat, Day) > 0
    /\ InWindow(ret.cat, Day) + ret.pruned >= ret.lim.daily

\* C3: with t and d the time and duration of the category's latest
\* SetCooldown, CanPerform at now < t+d returns false whatever the counts,
\* CanPerform at now >= t+d returns true when both counts are below their
\* limits, and the stored entry is still t+d: nothing deletes it.
C3_Cooldown ==
    \A c \in Categories :
        cdSet[c] # NoCall =>
            LET end == cdSet[c].at + cdSet[c].dur
            IN /\ cooldowns[c] = [ok |-> TRUE, end |-> end]
               /\ (Returned("CanPerform") /\ ret.cat = c) =>
                     /\ now < end => ~ret.allowed
                     /\ (now >= end /\ InWindow(c, Hour) < ret.lim.hourly
                           /\ InWindow(c, Day) < ret.lim.daily) => ret.allowed

\* CanPerform allowed the action exactly when the cooldown ran out, with
\* records present and the expired entry still stored
C3_Witness ==
    /\ Returned("CanPerform")
    /\ ret.allowed
    /\ cdSet[ret.cat] # NoCall
    /\ cdSet[ret.cat].dur > 0
    /\ now = cdSet[ret.cat].at + cdSet[ret.cat].dur
    /\ cooldowns[ret.cat].ok
    /\ Len(actionCounts[ret.cat]) > 0

\* ------------------------------------------- claims on WaitForNextAction

\* C6: WaitForNextAction returns only in the step in which its own
\* CanPerform(category, limits) call returned allowed; and with positive
\* hourlyLimit and dailyLimit, the clock advancing and nobody recording or
\* setting cooldowns meanwhile, a started wait eventually returns.
C6_WaitReturns ==
    /\ [][(wpc' = "done" /\ wpc # "done") =>
            /\ ret'.op = "CanPerform" /\ ret'.by = "waiter"
            /\ ret'.cat = wcat /\ ret'.lim = wlim
            /\ ret'.allowed]_vars
    /\ (wpc = "check" /\ wlim.hourly > 0 /\ wlim.daily > 0) ~> (wpc = "done")

\* a wait that was denied at least once, slept, and then returned
C6_Witness ==
    /\ wpc = "done"
    /\ waitTime > 0
    /\ now >= wake
    /\ ret.by = "waiter"
    /\ ret.allowed

\* ------------------------------------------------ claims on the mutex

\* C4: every step of every public method (WaitForNextAction included) that
\* reads or writes the histories or the cooldowns is taken by the holder of
\* the mutex; no read sees a value other than the one the methods would
\* produce run one at a time (nothing torn), and whenever the mutex is free
\* the stored state is that value (nothing lost).
C4_MutexProtects ==
    /\ \A p \in Procs : Kind(p) \in AccessKinds => mu = p
    /\ ~torn
    /\ mu = Free => (actionCounts = absCounts /\ cooldowns = absCooldowns)

\* the workflow goroutine holds the mutex inside WaitForNextAction's read of
\* the cooldown while the status goroutine is blocked at the lock of
\* SetCooldown
C4_Witness ==
    /\ lproc["workflow"].op = "WaitForNextAction"
    /\ Kind("workflow") = "readCooldown"
    /\ mu = "workflow"
    /\ lproc["status"].op = "SetCooldown"
    /\ Kind("status") = "lock"

\* -------------------------------------------- claims on the schedule window

InsideHours == cfg.startHour <= HourOf(now) /\ HourOf(now) < cfg.endHour

\* a call of IsWithinSchedule that can be made now and returns b
CanReturn(b) == \E draw \in Draws : IsWithinSchedule(draw) /\ sret'.result = b

\* C7: with businessHoursOnly = false IsWithinSchedule returns true at every
\* clock time and weekday, and WaitForSchedule returns at once, never
\* entering its loop and never sleeping.
C7_GatingDisabled ==
    ~cfg.businessHoursOnly =>
        /\ sret.op = "IsWithinSchedule" => sret.result
        /\ spc \in {"idle", "done"}
        /\ ~slept

\* gating disabled, a weekend night: WaitForSchedule has just returned and
\* IsWithinSchedule answers true
C7_Witness ==
    /\ ~cfg.businessHoursOnly
    /\ spc = "done"
    /\ IsWeekend(now)
    /\ ~InsideHours
    /\ sret.op = "IsWithinSchedule"
    /\ sret.result

C9_WorkdayOnly ==
    (cfg.businessHoursOnly /\ IsWeekend(now)) =>
        /\ sret.op = "IsWithinSchedule" => ~sret.result
        /\ spc # "done"

\* ------------------------------------------- claims on the session clock

\* the status goroutine is inside a read of a field that the workflow
\* goroutine is inside a write of
ReadsDuringWrite(reader, writer) ==
    /\ gor[reader].busy /\ gor[writer].busy
    /\ CurrentAccess(reader).kind = "read"
    /\ CurrentAccess(writer).kind = "write"
    /\ CurrentAccess(reader).field = CurrentAccess(writer).field

\* C5: the session clock is protected by mutual exclusion: the status
\* goroutine in GetSessionDuration, GetTimeSinceLastActivity or
\* ShouldTakeBreak never reads sessionStartAt, lastActivityAt or the action
\* counter while the workflow goroutine's write of it in TakeBreak,
\* RecordActivity or ResetSession is in flight, and so never sees a torn
\* value.
C5_SessionClockExclusive ==
    /\ ~ReadsDuringWrite("status", "workflow")
    /\ ~gor["status"].raced

\* C10: when TakeBreak returns it has slept between 2 and 10 minutes and
\* has reset the whole session clock: sessionStartAt is the time of return,
\* lastActivityAt is back at its zero value or at the time of return, and
\* the action counter is 0.
C10_BreakResetsClock ==
    gor["workflow"].last = "TakeBreak" =>
        /\ gor["workflow"].dur >= 2 * Minute
        /\ gor["workflow"].dur <= 10 * Minute
        /\ sessionStartAt = now
        /\ lastActivityAt \in {ZeroTime, now}
        /\ actionsThisHour = 0

\* ------------------------------------------------ claims on the cursor path

MoveToCalled == mouse.result \in {"nil", "panic"}

\* C11: for start # end the generated path's first point is start exactly
\* and its last point is end exactly, whatever the curvature and jitter
\* draws: jitter goes to the points with index 0 < i < N-1 only.
C11_PathEndpoints ==
    (MoveToCalled /\ mouse.start # mouse.target) =>
        /\ Len(mouse.path) >= MinPoints
        /\ mouse.path[1] = mouse.start
        /\ mouse.path[Len(mouse.path)] = mouse.target

\* a path of more than MinPoints points between two different points whose
\* second point is off the start
C11_Witness ==
    /\ mouse.result = "nil"
    /\ mouse.start # mouse.target
    /\ Len(mouse.path) > MinPoints
    /\ mouse.path[2] # mouse.start
    /\ mouse.path[Len(mouse.path) - 1] # mouse.target

\* C12: when the target is the current cursor position (distance 0) the
\* generated path is the single point target.
C12_ZeroDistanceSingleStep ==
    (MoveToCalled /\ mouse.start = mouse.target) =>
        mouse.path = <<mouse.target>>

\* C13: after a MoveTo that returns, the last position sent to the driver
\* is the target and lastX, lastY are the target; without an overshoot the
\* positions sent are the path points in order, with one they are the path,
\* one point 5 to 15 px off the target, and the target.
C13_MoveToEndsAtTarget ==
    mouse.result = "nil" =>
        LET n == Len(mouse.path)
        IN  /\ mouse.last = mouse.target
            /\ mouse.sent[Len(mouse.sent)] = mouse.target
            /\ SubSeq(mouse.sent, 1, n) = mouse.path
            /\ ~mouse.enableOvershoot => ~mouse.overshot
            /\ ~mouse.overshot => Len(mouse.sent) = n
            /\ mouse.overshot =>
                  /\ Len(mouse.sent) = n + 2
                  /\ Distance(mouse.target, mouse.sent[n + 1])
                        >= OvershootMin * Scale
                  /\ Distance(mouse.target, mouse.sent[n + 1])
                        < (OvershootMin + OvershootSpan) * Scale

\* a MoveTo between two different points that overshot and returned
C13_Witness ==
    /\ mouse.result = "nil"
    /\ mouse.overshot
    /\ mouse.start # mouse.target
    /\ Len(mouse.sent) = Len(mouse.path) + 2
    /\ mouse.sent[Len(mouse.path) + 1] # mouse.target

\* ------------------------------------------------------ claims on typing

TypingCalledOp == typing.op \in {"TypeText", "TypeWithPauses"}

\* the text left by a sequence of keys, backspaces applied
RECURSIVE Net(_)
Net(keys) ==
    IF Len(keys) = 0 THEN <<>>
    ELSE Press(Net(SubSeq(keys, 1, Len(keys) - 1)), keys[Len(keys)].key)

IsPrefix(a, b) == Len(a) <= Len(b) /\ a = SubSeq(b, 1, Len(a))

NearbyKeys(ch) == {getNearbyKey(ch, draw) : draw \in KeyDraws}

\* C14: TypeText and TypeWithPauses emit the characters of the text in
\* order; a typo is emitted as a nearby key, a backspace, then the intended
\* character, so the text left after the backspaces is a prefix of the input
\* all along and the input itself at a nil return, whatever the typo draws;
\* with typos disabled or probability 0 the keys emitted are the characters
\* of the text, one each (every driver call succeeding).
C14_TypedTextIsInput ==
    (TypingCalledOp /\ typing.failures = 0) =>
        LET keys == typing.sent
        IN  /\ IsPrefix(Net(keys), typing.text)
            /\ typing.result = "nil" => Net(keys) = typing.text
            /\ Len(keys) = Len(Net(keys)) + 2 * typing.typos
            /\ \A k \in DOMAIN keys :
                  keys[k].key = Backspace =>
                     /\ k > 1 /\ k < Len(keys)
                     /\ keys[k + 1].key # Backspace
                     /\ keys[k - 1].key \in NearbyKeys(keys[k + 1].key)
            /\ (~typing.enableTypos \/ typing.typoPercent = 0) =>
                  [k \in DOMAIN keys |-> keys[k].key] = Net(keys)

\* TypeWithPauses of two words returned nil after a typo
C14_Witness ==
    /\ typing.op = "TypeWithPauses"
    /\ typing.result = "nil"
    /\ typing.failures = 0
    /\ typing.typos >= 1
    /\ Len(typing.words) >= 2
    /\ Net(typing.sent) = typing.text
    /\ \E k \in DOMAIN typing.sent :
          typing.sent[k].key \notin {Backspace, " "}
             /\ k + 2 <= Len(typing.sent)
             /\ typing.sent[k + 1].key = Backspace
             /\ typing.sent[k + 2].key # typing.sent[k].key

KeyCalled == typing.op = "getNearbyKey"

\* C15: for a letter of either case with a tabulated neighbour, getNearbyKey
\* returns a character other than the input, which is a neighbour of the
\* input's lowercase form in the input's case: as tabulated for a lowercase
\* input, upper-cased for an uppercase one.
C15_NeighborDiffers ==
    LET char == typing.text[1]
        got == typing.sent[1]
        lowerChar == ToLower(char)
    IN  (KeyCalled /\ lowerChar \in DOMAIN neighbors
             /\ Len(neighbors[lowerChar]) > 0) =>
            /\ got # char
            /\ ToLower(got) \in Range(neighbors[lowerChar])
            /\ IsUpper(char) => got \notin LowerLetters
            /\ ~IsUpper(char) =>
                   (got \notin UpperLetters
                      /\ got \in Range(neighbors[lowerChar]))

\* an uppercase letter answered by an uppercase letter
C15_Witness ==
    /\ KeyCalled
    /\ typing.text[1] \in UpperLetters
    /\ typing.sent[1] \in UpperLetters
    /\ typing.sent[1] # typing.text[1]

\* --------------------------------------------------- claims on scrolling

ScrollToCalled == scroll.result \in {"nil", "err"}

\* C16: when the target is less than 10 px from the page's offset, ScrollTo
\* generates and executes no scroll step and applies no correction, the
\* offset stays as it was, and the call returns nil (it returns the error
\* only if the offset could not be read).
C16_NoStepsWithinThreshold ==
    (ScrollToCalled /\ Abs(scroll.target - scroll.from) < ScrollThreshold) =>
        /\ scroll.sent = <<>>
        /\ ~scroll.corrected
        /\ scroll.y = scroll.from
        /\ scroll.result = "nil" <=> ~scroll.readFailed

\* ScrollTo(95) with the page at 100 returned nil
C16_Witness ==
    /\ scroll.result = "nil"
    /\ scroll.from = 100
    /\ scroll.target = 95
    /\ scroll.sent = <<>>
    /\ scroll.y = 100

\* ----------------------------------------------------- claims on timing

\* C18: for min < max RandomDelay sleeps a delay d with min <= d <= max,
\* both ends included: the sample is clamped before it is slept.
C18_DelayInRange ==
    (timing.called /\ timing.min < timing.max) =>
        /\ timing.slept >= timing.min * 1000
        /\ timing.slept <= timing.max * 1000

\* a sample above max was slept as exactly max
C18_Witness ==
    /\ timing.called
    /\ timing.min < timing.max
    /\ timing.sample > Eighths * timing.max
    /\ timing.slept = timing.max * 1000

\* --------------------------------------------- claims on driver failures

\* C17: a driver failure in a primary step (here: emitting an intended
\* character or the space between two words) makes the operation return the
\* error: TypeText and TypeWithPauses never return nil after one.
C17_ErrorsReturned ==
    (TypingCalledOp /\ typing.result = "nil") => typing.lost = 0

\* ------------------------------------------- claims on the record lists

Sorted(times) ==
    \A j, k \in DOMAIN times : j < k => times[j] <= times[k]

\* C19: under every interleaving of the limiter's methods run by two
\* goroutines, each category's record list is sorted ascending by time.
C19_RecordsSorted == \A c \in Categories : Sorted(actionCounts[c])

\* two records taken at different times, while one goroutine counts them
\* under the mutex and the other waits for it in RecordAction
C19_Witness ==
    \E c \in Categories :
        /\ Len(actionCounts[c]) = 2
        /\ actionCounts[c][1] < actionCounts[c][2]
        /\ \E p \in Procs : Kind(p) = "count" /\ mu = p
        /\ \E p \in Procs : lproc[p].op = "RecordAction" /\ Kind(p) = "lock"

\* C20: every operation that reads a category's records prunes it first,
\* so that after CanPerform has reached the counts, after GetRemainingQuota
\* and after GetLastActionTime no entry of the category is older than 24
\* hours, and GetLastActionTime never returns a time older than 24 hours.
C20_ReadsPruneFirst ==
    /\ (\/ ret.op \in {"GetRemainingQuota", "GetLastActionTime"}
        \/ ret.op = "CanPerform" /\ ret.reason # "in cooldown")
          => \A k \in DOMAIN actionCounts[ret.cat] :
                actionCounts[ret.cat][k] >= now - Day
    /\ (ret.op = "GetLastActionTime" /\ ret.found) => ret.last >= now - Day

\* ------------------------------- claims on the sleeps of WaitForNextAction

\* the step in which WaitForNextAction has computed waitTime and starts Sleep
StartsSleep == wpc = "wait" /\ wpc' = "sleep"

\* C21: in each iteration of WaitForNextAction the sleep is the remaining
\* time to the cooldown end after a cooldown denial, 5 minutes after an
\* hourly-limit denial and the time to the next midnight after a daily-limit
\* denial; a non-positive computed wait becomes 1 minute; the caller sleeps
\* exactly that long, and after every sleep the next thing it does is
\* CanPerform, which it does reach (for every sleep that ends within the
\* time the clock is followed).
C21_SleepByReason ==
    /\ [][StartsSleep =>
            /\ wreason = "in cooldown" /\ cooldowns[wcat].ok
                    /\ cooldowns[wcat].end > now
                 => waitTime' = cooldowns[wcat].end - now
            /\ wreason = "in cooldown"
                    /\ (~cooldowns[wcat].ok \/ cooldowns[wcat].end <= now)
                 => waitTime' = Minute
            /\ wreason = "hourly limit reached" => waitTime' = 5 * Minute
            /\ wreason = "daily limit reached"
                 => waitTime' = Day - (now % Day)
            /\ waitTime' > 0
            /\ wake' = now + waitTime']_vars
    /\ [][wpc = "sleep" /\ wpc' # "sleep" => now >= wake /\ wpc' = "check"]_vars
    /\ [][wpc = "check" /\ wpc' # "check" =>
            ret'.op = "CanPerform" /\ ret'.by = "waiter"]_vars
    /\ (wpc = "sleep" /\ wake <= Horizon) ~> (wpc = "check")

\* a caller denied for the daily limit sleeping until the next midnight
C21_Witness ==
    /\ wpc = "sleep"
    /\ wreason = "daily limit reached"
    /\ now % Day # 0
    /\ waitTime = Day - (now % Day)
    /\ wake = now + waitTime

\* a caller denied for the hourly limit in its five-minute sleep
C21_HourlyWitness ==
    wpc = "sleep" /\ wreason = "hourly limit reached" /\ waitTime = 5 * Minute

\* a caller whose cooldown was reset before it read it, sleeping one minute
C21_FloorWitness ==
    wpc = "sleep" /\ wreason = "in cooldown" /\ waitTime = Minute
        /\ ~cooldowns[wcat].ok

\* ------------------------------------ claims on WaitForSchedule's target

\* the step of the outer loop in which IsWithinSchedule was false and
\* waitUntil is computed
ComputesTarget == spc = "loop" /\ spc' = "inner"

\* the next instant, not before t, at which the clock shows startHour:00
NextStart(c, t) ==
    IF t <= DayStart(t) + c.startHour * Hour
    THEN DayStart(t) + c.startHour * Hour
    ELSE DayStart(t) + Day + c.startHour * Hour

\* C22: whenever WaitForSchedule finds IsWithinSchedule false, the target it
\* computes before the jitter is the next upcoming occurrence of startHour
\* (today's if the current time is before it, otherwise tomorrow's) and so
\* is never in the past; the jitter is within 30 minutes either side; and
\* each sleep advances the clock by at most one minute.
C22_TargetIsNextStart ==
    /\ [][ComputesTarget =>
            /\ starget' = NextStart(cfg, now)
            /\ starget' >= now
            /\ waitUntil' - starget' >= 0 - JitterSpan * Minute
            /\ waitUntil' - starget' <= JitterSpan * Minute]_vars
    /\ [][spc = "inner" /\ spc' = "inner" => now' - now <= Minute]_vars

\* ------------------------------------------- claims on ShouldTakeBreak

\* C23: ShouldTakeBreak(actionsCount) returns true exactly when actionsCount
\* is a positive multiple of the divisor 20 + random(0,20) drawn in the
\* call, or the session has lasted longer than the 45 + random(0,45) minutes
\* drawn in the call, or the 2% draw succeeds; so it returns true whenever
\* the session is longer than 90 minutes, the count rule never fires for
\* actionsCount in 0..19, and the call changes no field of the scheduler.
C23_BreakRules ==
    /\ [](pure.op = "ShouldTakeBreak" =>
            /\ pure.result <=>
                  \/ pure.count > 0 /\ pure.count % (20 + pure.a) = 0
                  \/ pure.duration > (45 + pure.s) * Minute
                  \/ pure.f < 2
            /\ pure.a \in 0..19 /\ pure.s \in 0..44
            /\ pure.duration > 90 * Minute => pure.result
            /\ (pure.count \in 0..19 /\ pure.duration <= 45 * Minute
                    /\ pure.f >= 2) => ~pure.result)
    /\ [][pure'.op = "ShouldTakeBreak" =>
            UNCHANGED <<sessionStartAt, lastActivityAt, actionsThisHour,
                        cfg>>]_vars

\* a session longer than 90 minutes: the call answers true although the
\* count is no multiple and the 2% draw failed
C23_Witness ==
    /\ pure.op = "ShouldTakeBreak"
    /\ pure.duration > 90 * Minute
    /\ pure.count = 21
    /\ pure.f >= 2
    /\ pure.s = 44
    /\ pure.result

\* ----------------------------------------- claims on the keystroke delay

\* the character typed and the one before it, in the last call
KeyChar == pure.text[pure.index + 1]
PrevIsPunctuation ==
    pure.index > 0 /\ pure.text[pure.index] \in {".", ",", "!", "?", ";", ":"}
PairIsCommon ==
    pure.index > 0
        /\ <<ToLower(pure.text[pure.index]), ToLower(KeyChar)>> \in commonPairs
Between(x, lo, hi) == lo <= x /\ x <= hi

\* C24: the keystroke delay multiplier is chosen in strict priority order,
\* first match wins: after one of . , ! ? ; : it is 1.5-2.0; else for a
\* space it is 1.2-1.5; else for a common pair it is 0.7-0.9; else 1.0.  A
\* space typed right after a period gets 1.5-2.0 (calls without the
\* mid-thought pause).
C24_FirstMatchWins ==
    (pure.op = "calculateKeystrokeDelay" /\ ~pure.paused) =>
        IF PrevIsPunctuation THEN Between(pure.multiplier, 1500, 2000)
        ELSE IF KeyChar = " " THEN Between(pure.multiplier, 1200, 1500)
        ELSE IF PairIsCommon THEN Between(pure.multiplier, 700, 900)
        ELSE pure.multiplier = 1000

\* C25: when the 2% pause triggers, its multiplier 2.0-3.0 is multiplied
\* with the priority multiplier: a paused keystroke after punctuation is
\* delayed by at least 3.0 x base, a paused common-pair keystroke by at most
\* 2.7 x base.
C25_PauseMultiplies ==
    (pure.op = "calculateKeystrokeDelay" /\ pure.paused) =>
        /\ PrevIsPunctuation => pure.delay >= 3 * pure.baseDelay
        /\ PairIsCommon => 10 * pure.delay <= 27 * pure.baseDelay

\* ------------------------------------------- claims on the scroll steps

\* the number of steps the claim gives for a distance
ClampedSteps(d) ==
    LET q == Abs(d) \div 50
    IN  IF q < 5 THEN 5 ELSE IF q > 30 THEN 30 ELSE q

\* C26: for a scroll over a distance d with |d| >= 10 the number of steps is
\* clamp(max(5, |d|/50), 5, 30); the step positions move monotonically from
\* currentY toward targetY without passing it, and the last step's position
\* is targetY exactly.
C26_ScrollSteps ==
    (scroll.result = "nil" /\ Abs(scroll.target - scroll.from) >= 10) =>
        LET n == ClampedSteps(scroll.target - scroll.from)
            up == scroll.target < scroll.from
            pos(k) == IF k = 0 THEN scroll.from ELSE scroll.sent[k]
        IN  /\ Len(scroll.sent) = n + (IF scroll.corrected THEN 2 ELSE 0)
            /\ \A k \in 1..n :
                  /\ IF up THEN pos(k) <= pos(k - 1) ELSE pos(k) >= pos(k - 1)
                  /\ IF up THEN pos(k) >= scroll.target
                           ELSE pos(k) <= scroll.target
            /\ pos(n) = scroll.target

\* a scroll from the top to offset 2000: thirty steps, the last at 2000
C26_Witness ==
    /\ scroll.result = "nil"
    /\ scroll.from = 0
    /\ scroll.target = 2000
    /\ ~scroll.corrected
    /\ Len(scroll.sent) = 30
    /\ scroll.sent[1] > 0
    /\ scroll.sent[30] = 2000

\* a scroll upward over 1600 pixels
C26_UpWitness ==
    /\ scroll.result = "nil"
    /\ scroll.from = 2000
    /\ scroll.target = 400
    /\ Len(scroll.sent) >= 30

\* ------------------------------------------ claims on the optional steps

\* C27: a failure in a cosmetic step (here the mouse overshoot correction of
\* MoveTo) is never propagated and never aborts the enclosing operation: a
\* MoveTo whose path was sent in full has returned nil.
C27_OptionalStepsFailSoft ==
    (mouse.result # "none" /\ Len(mouse.sent) >= Len(mouse.path)) =>
        mouse.result = "nil"

\* --------------------------------------------------- claims on sampling

\* C28: for every configuration accepted by Config.Validate, the sampling in
\* calculateKeystrokeDelay, ScrollDown and ScrollUp cannot fail: the range
\* handed to the random integer is strictly positive and no call aborts.
C28_SamplingCannotFail ==
    Validate(cfg) =>
        /\ pure.op = "calculateKeystrokeDelay" =>
              cfg.maxTypingDelayMs - cfg.minTypingDelayMs > 0 /\ ~pure.panicked
        /\ scroll.result # "none" =>
              cfg.scrollSpeedMax - cfg.scrollSpeedMin > 0
                 /\ scroll.result # "panic"

\* --------------------------------------- claims on checking then recording

\* C29: if every caller records an action only directly after CanPerform
\* returned allowed for that category and limits, then under any
\* interleaving of concurrent callers the records of the category within the
\* trailing hour never exceed hourlyLimit and those within the trailing 24
\* hours never exceed dailyLimit.
C29_LimitsNeverExceeded ==
    \A c \in Categories, lim \in LockLimits :
        /\ countInWindow(actionCounts[c], Hour, now) <= lim.hourly
        /\ countInWindow(actionCounts[c], Day, now) <= lim.daily

\* ------------------------------------- claims on pauses between requests

\* C30: for every configuration accepted by Config.Validate, the pause
\* between two consecutive connection requests in ProcessPendingProfiles and
\* between two consecutive follow-up messages in SendFollowups is never
\* shorter than MinDelaySeconds.
C30_PauseAtLeastMin ==
    (Validate(cfg) /\ timing.called) =>
        timing.slept >= cfg.minDelaySeconds * 1000

====
